---------------------------- MODULE Spec2Model ----------------------------
(***************************************************************************)
(* A model of the MPC core of iris-mpc: the fixed-size SyncState wire      *)
(* record and the sync round (iris-mpc-gpu/src/server/sync_nccl.rs), the   *)
(* NetworkValue wire encoding (iris-mpc-cpu/src/next_gen_network/value.rs) *)
(* and the replicated-share threshold test with its open round             *)
(* (iris-mpc-gpu/tests/threshold.rs).                                      *)
(*                                                                         *)
(* Byte buffers are sequences of 0..255.  bincode 1.x (fixed-width,        *)
(* little-endian, u64 length prefixes, u32 enum tags, trailing bytes       *)
(* allowed by bincode::deserialize) is modelled byte by byte.              *)
(***************************************************************************)
EXTENDS Integers, Sequences, FiniteSets, TLC

VARIABLES
    \* ---- serialize / deserialize_all as pure functions
    ser_in,          \* the sequence of SyncStates handed to serialize
    ser_out,         \* per state, the Result of serialize
    ser_all,         \* the Result of deserialize_all on the concatenation
    ser_pc,          \* "init" | "serialized" | "decoded"
    \* ---- one sync round of the three parties
    sync_state,      \* party -> the SyncState it calls sync with
    sync_pc,         \* party -> "idle" | "gather" | "done" | "failed"
    state_dev,       \* party -> its serialized state on the device
    all_states_dev,  \* party -> its all_gather receive buffer
    sync_result,     \* party -> the Result<SyncResult> sync returned
    \* ---- a NetworkValue on the wire
    nv_value,        \* the NetworkValue sent
    nv_wire,         \* what the receiver gets: eyre::Result<Vec<u8>>
    nv_kind,         \* "valid" | "truncated" | "badtag" | "err"
    nv_result,       \* what from_network returned
    nv_pc,           \* "init" | "sent" | "received"
    \* ---- the build
    overflow_checks, \* whether the build has rustc's overflow checks on
    \* ---- rep_share as a pure function
    sh_value,        \* the u16 value shared
    sh_a, sh_b,      \* the two u16 drawn from the rng
    sh_out,          \* party id -> what rep_share returned to it
    \* ---- real_result_msb on one pair, as a pure function
    msb_c, msb_m,    \* the code and mask dot-products (u16)
    msb_out,         \* the bit computed
    \* ---- test_threshold, one process per party
    thr_seed,        \* the seed of every party's rng
    n_devices,       \* CudaDevice::count(), the same for every party
    thr_pc,          \* party -> "start" | "ready" | "compared" | "opening"
                     \*          | "done" | "panicked"
    code_gpu,        \* party -> per device, the ChunkShare of the code dots
    mask_gpu,        \* party -> per device, the ChunkShare of the mask dots
    real_result,     \* party -> real_result_msb's packed reference bits
    result_buf,      \* party -> per device, the circuit's result ChunkShare
    open_out,        \* party -> the vector open returned
    correct,         \* party -> the test's verdict on open's result
    words_per_gpu,   \* INPUTS_PER_GPU_SIZE / 64 of the build
    thr_iter,        \* party -> iterations of the test loop completed
    open_count,      \* party -> open rounds the party has issued
    buf_taken,       \* party -> whether the result buffer is out of Circuits
    thr_rnd,         \* the randomness of the last circuit run
    first_out,       \* party -> what the first open of a result returned
    \* ---- the client: main's request loop and the receiving task
    cli_random,      \* whether --random was given
    cli_pc,          \* task -> where it is
    cli_holder,      \* mutex -> the task holding it, or "none"
    cli_query,       \* query_idx: the requests published
    cli_template,    \* the template of the request being built
    cli_expected,    \* expected_results: request id -> Option<serial id>
    cli_requests,    \* requests: request id -> IrisCode
    cli_responses,   \* responses: serial id -> IrisCode
    cli_queue,       \* the response queue: request id -> results pending
    cli_msg,         \* the request id of the result being handled
    cli_polls,       \* iterations of the receiving loop completed
    \* ---- CUDA streams and events of the devices
    ev_stream,       \* stream -> what it was given and has not reached yet
    ev_running,      \* stream -> the work it is running, or Idle
    ev_gen,          \* event -> records of it the host has issued
    ev_fired,        \* event -> the last of its records a stream reached
    ev_awaited,      \* device -> records seen by the last await_event
    ev_calls,        \* calls the host has made
    ev_ndev,         \* the number of devices
    ev_work,         \* work item -> its stream and what preceded it
    ev_started,      \* the work items started
    ev_completed,    \* the work items completed
    ev_uses,         \* (event, stream) pairs of the records and waits issued
    \* ---- one open round, call by call
    grp_ndev,        \* the number of devices of every party
    grp_pc,          \* party -> where it is in open
    grp_idx,         \* party -> the device index of the loop it is in
    grp_log,         \* party -> the calls it has issued, in order
    grp_queued,      \* party -> the calls queued in its open group
    grp_launched,    \* party -> the calls launched on its streams
    grp_sent,        \* party -> the devices whose send has completed
    grp_recv,        \* party -> per device, the share received
    grp_host,        \* party -> the received shares copied to the host
    \* ---- one call of decrypt_iris_share
    dec_share,       \* the share handed in
    dec_keys,        \* the key pairs handed in
    dec_pc,          \* "start" | "decoded" | "previous" | "opened" | "done"
    dec_tried,       \* the key pairs tried, in order
    dec_bytes,       \* share_bytes, then the decrypted bytes
    dec_result,      \* the Result returned
    \* ---- one call of get_iris_data_by_party_id
    fet_party,       \* party_id
    fet_pc,          \* "retry" | "sending" | "sleeping" | "response" | "done"
    fet_attempts,    \* GET requests sent
    fet_strategy,    \* delays left in retry_strategy
    fet_response,    \* the response of the send that succeeded
    fet_result       \* the Result returned

serVars  == <<ser_in, ser_out, ser_all, ser_pc>>
syncVars == <<sync_state, sync_pc, state_dev, all_states_dev, sync_result>>
wireVars == <<nv_value, nv_wire, nv_kind, nv_result, nv_pc>>
shareVars == <<sh_value, sh_a, sh_b, sh_out>>
msbVars  == <<msb_c, msb_m, msb_out>>
thrVars  == <<thr_seed, n_devices, thr_pc, code_gpu, mask_gpu, real_result,
              result_buf, open_out, correct, words_per_gpu, thr_iter,
              open_count, buf_taken, thr_rnd, first_out>>
cliVars  == <<cli_random, cli_pc, cli_holder, cli_query, cli_template,
              cli_expected, cli_requests, cli_responses, cli_queue, cli_msg,
              cli_polls>>
evVars   == <<ev_ndev, ev_stream, ev_running, ev_gen, ev_fired, ev_awaited,
              ev_calls, ev_work, ev_started, ev_completed, ev_uses>>
grpVars  == <<grp_ndev, grp_pc, grp_idx, grp_log, grp_queued, grp_launched,
              grp_sent, grp_recv, grp_host>>
decVars  == <<dec_share, dec_keys, dec_pc, dec_tried, dec_bytes, dec_result>>
fetVars  == <<fet_party, fet_pc, fet_attempts, fet_strategy, fet_response,
              fet_result>>
reqVars  == <<decVars, fetVars>>
extVars  == <<cliVars, evVars, grpVars, reqVars>>
vars     == <<serVars, syncVars, wireVars, overflow_checks, shareVars, msbVars,
              thrVars, extVars>>

\* what each component leaves alone
notSer   == <<syncVars, wireVars, overflow_checks, shareVars, msbVars, thrVars,
              extVars>>
notSync  == <<serVars, wireVars, overflow_checks, shareVars, msbVars, thrVars,
              extVars>>
notWire  == <<serVars, syncVars, overflow_checks, shareVars, msbVars, thrVars,
              extVars>>
notShare == <<serVars, syncVars, wireVars, overflow_checks, msbVars, thrVars,
              extVars>>
notThr   == <<serVars, syncVars, wireVars, shareVars, msbVars, extVars>>
notCli   == <<serVars, syncVars, wireVars, overflow_checks, shareVars, msbVars,
              thrVars, evVars, grpVars, reqVars>>
notEv    == <<serVars, syncVars, wireVars, overflow_checks, shareVars, msbVars,
              thrVars, cliVars, grpVars, reqVars>>
notGrp   == <<serVars, syncVars, wireVars, overflow_checks, shareVars, msbVars,
              thrVars, cliVars, evVars, reqVars>>
notDec   == <<serVars, syncVars, wireVars, overflow_checks, shareVars, msbVars,
              thrVars, cliVars, evVars, grpVars, fetVars>>
notFet   == <<serVars, syncVars, wireVars, overflow_checks, shareVars, msbVars,
              thrVars, cliVars, evVars, grpVars, decVars>>
notMsb   == <<serVars, syncVars, wireVars, overflow_checks, shareVars, thrVars,
              extVars>>

---------------------------------------------------------------------------
(* Generic helpers                                                         *)

Byte == 0..255

Ok(v)  == [ok |-> TRUE,  val |-> v]
Err(e) == [ok |-> FALSE, val |-> e]

None    == [some |-> FALSE, v |-> 0]
Some(x) == [some |-> TRUE,  v |-> x]

Min(S) == CHOOSE x \in S : \A y \in S : x <= y

Zeros(n) == [i \in 1..n |-> 0]

RECURSIVE Concat(_)
Concat(seqs) == IF seqs = <<>> THEN <<>> ELSE Head(seqs) \o Concat(Tail(seqs))

\* x.to_le_bytes() cut or extended to n bytes
RECURSIVE LE(_, _)
LE(x, n) == IF n = 0 THEN <<>> ELSE <<x % 256>> \o LE(x \div 256, n - 1)

\* A little-endian field that does not fit the model's integers (>= 2^31).
IsBig(bs) == \/ \E i \in 5..Len(bs) : bs[i] # 0
             \/ (Len(bs) >= 4 /\ bs[4] >= 128)

RECURSIVE FromLE(_)
FromLE(bs) == IF bs = <<>> THEN 0 ELSE Head(bs) + 256 * FromLE(Tail(bs))

\* The value of a little-endian field: an integer, or the bytes themselves
\* when it is 2^31 or more (distinct values stay distinct).
Unsigned(bs) == IF IsBig(bs) THEN bs ELSE FromLE(bs)

\* str::from_utf8 on the bytes of a decoded String (1- to 4-byte sequences;
\* overlong and surrogate encodings are not told apart from valid ones).
RECURSIVE Utf8Valid(_)
Utf8Valid(bs) ==
    IF bs = <<>> THEN TRUE
    ELSE LET b == Head(bs)
             n == IF b < 128 THEN 0
                  ELSE IF b >= 194 /\ b <= 223 THEN 1
                  ELSE IF b >= 224 /\ b <= 239 THEN 2
                  ELSE IF b >= 240 /\ b <= 244 THEN 3
                  ELSE 4
         IN  /\ n < 4
             /\ Len(bs) > n
             /\ \A i \in 2..(n + 1) : bs[i] >= 128 /\ bs[i] <= 191
             /\ Utf8Valid(SubSeq(bs, n + 2, Len(bs)))

---------------------------------------------------------------------------
(* sync_nccl.rs: the fixed-size SyncState record                           *)

\* size_of::<usize>() on the 64-bit targets the GPU code builds for
USIZE == 8

\* Scaled for model checking: the source sets 256 * 2 and 36.
MAX_REQUESTS == 2
MAX_REQUEST_ID_LEN == 3

SERIAL_SIZE == MAX_REQUESTS * (USIZE + MAX_REQUEST_ID_LEN) + 2 * USIZE

\* A SyncState: [db_len |-> u64, deleted_request_ids |-> Vec<String>], a
\* String being its UTF-8 bytes.
SyncState(n, ids) == [db_len |-> n, deleted_request_ids |-> ids]

\* bincode's String: u64 length in bytes, then the bytes
BincodeString(s) == LE(Len(s), 8) \o s

\* bincode::serialize(state): db_len: u64, then Vec<String> as a u64 count
\* and the strings
BincodeSyncState(state) ==
    LE(state.db_len, 8)
      \o LE(Len(state.deleted_request_ids), 8)
      \o Concat([i \in 1..Len(state.deleted_request_ids) |->
                    BincodeString(state.deleted_request_ids[i])])

serialize_nopad(state) ==
    LET state_ser == BincodeSyncState(state)
    IN  IF Len(state_ser) > SERIAL_SIZE
        THEN Err("State too large to serialize")
        ELSE Ok(state_ser)

serialize_slots(state) ==
    LET ids == state.deleted_request_ids
    IN  IF \/ Len(ids) > MAX_REQUESTS
           \/ \E k \in 1..Len(ids) : Len(ids[k]) > MAX_REQUEST_ID_LEN
        THEN Err("State too large to serialize")
        ELSE Ok(LE(state.db_len, 8) \o LE(Len(ids), 8)
                  \o Concat([k \in 1..MAX_REQUESTS |->
                        IF k <= Len(ids)
                        THEN LE(Len(ids[k]), 8) \o ids[k]
                                \o Zeros(MAX_REQUEST_ID_LEN - Len(ids[k]))
                        ELSE Zeros(USIZE + MAX_REQUEST_ID_LEN)]))

serialize(state) ==
    LET state_ser == BincodeSyncState(state)
    IN  IF Len(state_ser) > SERIAL_SIZE
        THEN Err("State too large to serialize")
        ELSE Ok(state_ser \o Zeros(SERIAL_SIZE - Len(state_ser)))

\* bincode reading n Strings from position pos (1-based) of bs
RECURSIVE ReadStrings(_, _, _, _)
ReadStrings(bs, pos, n, acc) ==
    IF n = 0 THEN Ok(acc)
    ELSE IF pos + 8 - 1 > Len(bs) THEN Err("io error: unexpected end of file")
    ELSE LET lenb == SubSeq(bs, pos, pos + 7)
         IN  IF IsBig(lenb) \/ FromLE(lenb) > Len(bs) - pos - 7
             THEN Err("io error: unexpected end of file")
             ELSE LET s == SubSeq(bs, pos + 8, pos + 8 + FromLE(lenb) - 1)
                  IN  IF ~Utf8Valid(s) THEN Err("string is not valid utf8")
                      ELSE ReadStrings(bs, pos + 8 + FromLE(lenb), n - 1,
                                       Append(acc, s))

\* bincode::deserialize::<SyncState>: fields in declaration order starting
\* at byte offset first; bytes after the value are ignored.
ReadSyncState(bs, lenAt, cntAt) ==
    IF Len(bs) < 16 THEN Err("io error: unexpected end of file")
    ELSE LET cntb == SubSeq(bs, cntAt, cntAt + 7)
         IN  \* every String takes 8 bytes or more
             IF IsBig(cntb) \/ FromLE(cntb) > (Len(bs) - 16) \div 8
             THEN Err("io error: unexpected end of file")
             ELSE LET ids == ReadStrings(bs, 17, FromLE(cntb), <<>>)
                  IN  IF ~ids.ok THEN ids
                      ELSE Ok(SyncState(Unsigned(SubSeq(bs, lenAt, lenAt + 7)),
                                        ids.val))

deserialize_len_plus_count(state_ser) ==
    LET r == ReadSyncState(state_ser, 1, 9)
    IN  IF r.ok
        THEN Ok(SyncState(r.val.db_len + Len(r.val.deleted_request_ids),
                          r.val.deleted_request_ids))
        ELSE r

deserialize_count_as_len(state_ser) == ReadSyncState(state_ser, 9, 9)

deserialize(state_ser) == ReadSyncState(state_ser, 1, 9)

\* slice.chunks(n): consecutive chunks of n, the last one possibly shorter
Chunks(bs, n) ==
    [k \in 1..((Len(bs) + n - 1) \div n) |->
        SubSeq(bs, (k - 1) * n + 1,
               IF k * n < Len(bs) THEN k * n ELSE Len(bs))]

\* iter.map(f).collect::<Result<Vec<_>>>(): the first Err, or all the values
CollectResults(rs) ==
    IF \E i \in 1..Len(rs) : ~rs[i].ok
    THEN rs[CHOOSE i \in 1..Len(rs) :
                ~rs[i].ok /\ \A j \in 1..(i - 1) : rs[j].ok]
    ELSE Ok([i \in 1..Len(rs) |-> rs[i].val])

deserialize_all_first(state_ser) ==
    LET cs == Chunks(state_ser, SERIAL_SIZE)
    IN  CollectResults([k \in 1..(IF Len(cs) > 0 THEN 1 ELSE 0) |->
                            deserialize(cs[k])])

deserialize_all(state_ser) ==
    LET cs == Chunks(state_ser, SERIAL_SIZE)
    IN  CollectResults([k \in 1..Len(cs) |-> deserialize(cs[k])])

---------------------------------------------------------------------------
(* Specification SpecSer: serialize and deserialize_all as pure functions, *)
(* applied to bounded sequences of SyncStates.                             *)

\* Bounds of the sampled SyncStates.
MaxRecords == 2
DbLens == {0, 300}
Ident(n) == [i \in 1..n |-> 65]                      \* "A".repeat(n)
IdSample == {<<>>, Ident(MAX_REQUEST_ID_LEN), Ident(MAX_REQUEST_ID_LEN + 1),
             <<195, 169>>}
IdCounts == {0, 1, MAX_REQUESTS, MAX_REQUESTS + 1}
IdLists == {[i \in 1..n |-> IF i % 2 = 1 THEN x ELSE y] :
               n \in IdCounts, x \in IdSample, y \in IdSample}
SerStates == {SyncState(d, ids) : d \in DbLens, ids \in IdLists}

SerSeqs == UNION {[1..n -> SerStates] : n \in 0..MaxRecords}

NoResult == [ok |-> FALSE, val |-> "none"]

InitSer ==
    /\ ser_in \in SerSeqs
    /\ ser_out = <<>>
    /\ ser_all = NoResult
    /\ ser_pc = "init"

\* serialize applied to every state of the sequence
Serialize ==
    /\ ser_pc = "init"
    /\ ser_out' = [i \in 1..Len(ser_in) |-> serialize(ser_in[i])]
    /\ ser_pc' = "serialized"
    /\ UNCHANGED <<ser_in, ser_all, notSer>>

\* deserialize_all applied to the concatenation of the accepted records
DeserializeAll ==
    /\ ser_pc = "serialized"
    /\ \A i \in 1..Len(ser_out) : ser_out[i].ok
    /\ ser_all' = deserialize_all(
                     Concat([i \in 1..Len(ser_out) |-> ser_out[i].val]))
    /\ ser_pc' = "decoded"
    /\ UNCHANGED <<ser_in, ser_out, notSer>>

---------------------------------------------------------------------------
(* Specification SpecSync: one sync round of the three parties             *)

\* n_parties of the tests; comm.world_size()
WORLD_SIZE == 3
Parties == 0..(WORLD_SIZE - 1)

abc == <<97, 98, 99>>
def == <<100, 101, 102>>
\* some_state() of the tests
some_state == SyncState(123, <<abc, def>>)
\* the late party of test_out_of_sync
late_state == SyncState(12, <<>>)
\* The states a party may call sync with: the tests' two, one of the same
\* length as some_state with other deleted ids, one ahead, and one that
\* serialize rejects.
SyncSample == {some_state, late_state, SyncState(123, <<def>>),
               SyncState(300, <<>>),
               SyncState(123, [i \in 1..(MAX_REQUESTS + 1) |-> abc])}

\* SyncResult::new(my_state, all_states)
SyncResult_new(my_state, all_states) ==
    [my_state |-> my_state, all_states |-> all_states]

\* SyncResult::must_rollback_storage: None when every state's db_len is the
\* caller's own, else the minimum db_len over all states, own included.
must_rollback_storage(r) ==
    LET lens == {r.all_states[i].db_len : i \in 1..Len(r.all_states)}
                  \cup {r.my_state.db_len}
    IN  IF \A i \in 1..Len(r.all_states) :
              r.all_states[i].db_len = r.my_state.db_len
        THEN None
        ELSE Some(Min(lens))

all_gather_rank0(sendbufs) == Concat([k \in 1..WORLD_SIZE |-> sendbufs[0]])

\* comm.all_gather(&state_dev, &mut all_states_dev): the send buffers of all
\* ranks, concatenated in rank order
all_gather(sendbufs) == Concat([k \in 1..WORLD_SIZE |-> sendbufs[k - 1]])

sync_return_peers(state, all_states) ==
    Ok(SyncResult_new(state, SelectSeq(all_states, LAMBDA s : s # state)))

sync_return_first(state, all_states) ==
    Ok(SyncResult_new(all_states[1], all_states))

\* sync, line 20: Ok(SyncResult::new(state.clone(), all_states))
sync_return(state, all_states) == Ok(SyncResult_new(state, all_states))

InitSync ==
    /\ sync_state \in [Parties -> SyncSample]
    /\ sync_pc = [p \in Parties |-> "idle"]
    /\ state_dev = [p \in Parties |-> <<>>]
    /\ all_states_dev = [p \in Parties |-> <<>>]
    /\ sync_result = [p \in Parties |-> NoResult]

\* sync, lines 9-13: serialize the state, copy it to the device, allocate the
\* receive buffer; the party then waits in all_gather.
SyncSerialize(p) ==
    /\ sync_pc[p] = "idle"
    /\ LET ser == serialize(sync_state[p])
       IN  IF ser.ok
           THEN /\ state_dev' = [state_dev EXCEPT ![p] = ser.val]
                /\ all_states_dev' =
                     [all_states_dev EXCEPT ![p] = Zeros(Len(ser.val) * WORLD_SIZE)]
                /\ sync_pc' = [sync_pc EXCEPT ![p] = "gather"]
                /\ UNCHANGED sync_result
           ELSE /\ sync_result' = [sync_result EXCEPT ![p] = ser]
                /\ sync_pc' = [sync_pc EXCEPT ![p] = "failed"]
                /\ UNCHANGED <<state_dev, all_states_dev>>
    /\ UNCHANGED <<sync_state, notSync>>

Contributed_always(q) == TRUE

\* A rank has contributed once its send buffer is posted to the collective.
Contributed(q) == sync_pc[q] \in {"gather", "done"} \/
                  (sync_pc[q] = "failed" /\ state_dev[q] # <<>>)
SyncGather_partial(p) ==
    /\ sync_pc[p] = "gather"
    /\ \A q \in Parties : Contributed(q)
    /\ LET gathered == all_gather([q \in Parties |->
                              IF q <= p THEN state_dev[q] ELSE state_dev[p]])
           all_states == deserialize_all(gathered)
       IN  /\ all_states_dev' = [all_states_dev EXCEPT ![p] = gathered]
           /\ IF all_states.ok
              THEN /\ sync_result' = [sync_result EXCEPT ![p] =
                          sync_return(sync_state[p], all_states.val)]
                   /\ sync_pc' = [sync_pc EXCEPT ![p] = "done"]
              ELSE /\ sync_result' = [sync_result EXCEPT ![p] = all_states]
                   /\ sync_pc' = [sync_pc EXCEPT ![p] = "failed"]
    /\ UNCHANGED <<sync_state, state_dev, notSync>>

\* sync, lines 15-20: the collective completes once every rank has
\* contributed; the gathered buffer is copied back and decoded.
SyncGather(p) ==
    /\ sync_pc[p] = "gather"
    /\ \A q \in Parties : Contributed(q)
    /\ LET gathered == all_gather(state_dev)
           all_states == deserialize_all(gathered)
       IN  /\ all_states_dev' = [all_states_dev EXCEPT ![p] = gathered]
           /\ IF all_states.ok
              THEN /\ sync_result' = [sync_result EXCEPT ![p] =
                          sync_return(sync_state[p], all_states.val)]
                   /\ sync_pc' = [sync_pc EXCEPT ![p] = "done"]
              ELSE /\ sync_result' = [sync_result EXCEPT ![p] = all_states]
                   /\ sync_pc' = [sync_pc EXCEPT ![p] = "failed"]
    /\ UNCHANGED <<sync_state, state_dev, notSync>>

SyncGatherFail_retry(p) ==
    /\ sync_pc[p] = "gather"
    /\ sync_result' = [sync_result EXCEPT ![p] = Err("NcclError")]
    /\ sync_pc' = [sync_pc EXCEPT ![p] = "idle"]
    /\ UNCHANGED <<sync_state, state_dev, all_states_dev, notSync>>

\* sync, lines 15-16: the collective reports an error, mapped to Err
SyncGatherFail(p) ==
    /\ sync_pc[p] = "gather"
    /\ sync_result' = [sync_result EXCEPT ![p] = Err("NcclError")]
    /\ sync_pc' = [sync_pc EXCEPT ![p] = "failed"]
    /\ UNCHANGED <<sync_state, state_dev, all_states_dev, notSync>>

---------------------------------------------------------------------------
(* value.rs: NetworkValue and its bincode encoding                         *)

\* A ring integer of w bytes is written as its w base-256 digits, most
\* significant first (this reaches integers beyond 2^31); its wire form is
\* to_le_bytes, the digits least significant first.
Reverse(sq) == [i \in 1..Len(sq) |-> sq[Len(sq) + 1 - i]]

\* enum NetworkValue: the variants in declaration order (bincode's u32
\* variant index is the position - 1), the shape of the payload and the
\* width in bytes of one element.
Variants ==
    << [name |-> "PrfKey",         shape |-> "array",  width |-> 16],
       [name |-> "Ring16",         shape |-> "int",    width |-> 2],
       [name |-> "Ring32",         shape |-> "int",    width |-> 4],
       [name |-> "RingElementBit", shape |-> "bit",    width |-> 1],
       [name |-> "RingElement16",  shape |-> "int",    width |-> 2],
       [name |-> "RingElement32",  shape |-> "int",    width |-> 4],
       [name |-> "RingElement64",  shape |-> "int",    width |-> 8],
       [name |-> "VecRing16",      shape |-> "vec",    width |-> 2],
       [name |-> "VecRing32",      shape |-> "vec",    width |-> 4],
       [name |-> "VecRing64",      shape |-> "vec",    width |-> 8] >>

VariantIndex(name) == CHOOSE i \in 1..Len(Variants) : Variants[i].name = name

\* A NetworkValue: data is the sequence of its elements (one, but for the
\* vectors): the 16 key bytes, the digits of an integer, the digit 0 or 1 of a
\* Bit.
NetworkValue(name, data) == [variant |-> name, data |-> data]

\* RingElement<Bit>: a bool, written as one byte 0 or 1
EncBit(b) == IF b = <<1>> THEN <<1>> ELSE <<0>>

DecBit(byte) == IF byte = 0 THEN Ok(<<0>>)
                ELSE IF byte = 1 THEN Ok(<<1>>)
                ELSE Err("invalid u8 while decoding bool")

EncPayload(v, x) ==
    CASE v.shape = "array" -> x.data[1]
      [] v.shape = "int"   -> Reverse(x.data[1])
      [] v.shape = "bit"   -> EncBit(x.data[1])
      [] v.shape = "vec"   ->
            LE(Len(x.data), 8)
              \o Concat([i \in 1..Len(x.data) |-> Reverse(x.data[i])])

to_network_tag8(x) ==
    LET i == VariantIndex(x.variant)
    IN  LE(i - 1, 1) \o EncPayload(Variants[i], x)

\* NetworkValue::to_network: bincode::serialize(self).unwrap()
to_network(x) ==
    LET i == VariantIndex(x.variant)
    IN  LE(i - 1, 4) \o EncPayload(Variants[i], x)

\* bincode reading the payload of variant v from the bytes after the tag
DecPayload(v, bs) ==
    CASE v.shape \in {"array", "int", "bit"} ->
            IF Len(bs) < v.width THEN Err("io error: unexpected end of file")
            ELSE IF v.shape = "array"
                 THEN Ok(NetworkValue(v.name, <<SubSeq(bs, 1, v.width)>>))
            ELSE IF v.shape = "int"
                 THEN Ok(NetworkValue(v.name, <<Reverse(SubSeq(bs, 1, v.width))>>))
            ELSE LET b == DecBit(bs[1])
                 IN  IF b.ok THEN Ok(NetworkValue(v.name, <<b.val>>)) ELSE b
      [] v.shape = "vec" ->
            IF Len(bs) < 8 THEN Err("io error: unexpected end of file")
            ELSE LET lenb == SubSeq(bs, 1, 8)
                 IN  IF IsBig(lenb) \/ FromLE(lenb) > (Len(bs) - 8) \div v.width
                     THEN Err("io error: unexpected end of file")
                     ELSE Ok(NetworkValue(v.name,
                               [i \in 1..FromLE(lenb) |->
                                   Reverse(SubSeq(bs, 8 + (i - 1) * v.width + 1,
                                                  8 + i * v.width))]))

\* bincode::deserialize::<NetworkValue>(bytes)
BincodeNetworkValue(bs) ==
    IF Len(bs) < 4 THEN Err("io error: unexpected end of file")
    ELSE LET tagb == SubSeq(bs, 1, 4)
         IN  IF IsBig(tagb) \/ FromLE(tagb) >= Len(Variants)
             THEN Err("invalid value: expected variant index 0 <= i < 10")
             ELSE DecPayload(Variants[FromLE(tagb) + 1], SubSeq(bs, 5, Len(bs)))

\* a panic of the calling thread
Panic == Err("panicked")
IsErr(r) == ~r.ok /\ r # Panic

from_network_unwrap(serialized) ==
    IF ~serialized.ok THEN Panic
    ELSE LET r == BincodeNetworkValue(serialized.val)
         IN  IF r.ok THEN r ELSE Err("failed to parse value")

\* NetworkValue::from_network: `serialized?` hands an Err input back, every
\* decoding error becomes eyre!("failed to parse value")
from_network(serialized) ==
    IF ~serialized.ok THEN serialized
    ELSE LET r == BincodeNetworkValue(serialized.val)
         IN  IF r.ok THEN r ELSE Err("failed to parse value")

---------------------------------------------------------------------------
(* Specification SpecWire: a NetworkValue sent, possibly damaged on the    *)
(* way, and decoded.                                                       *)

\* Bounds of the sampled values: vectors of 0, 1 and up to MaxVecLen elements
MaxVecLen == 3
Digits(w) == {[i \in 1..w |-> 0], [i \in 1..w |-> 255], [i \in 1..w |-> i],
              [i \in 1..w |-> IF i = 1 THEN 128 ELSE 0]}
VecSample(w) ==
    {<<>>} \cup {<<d>> : d \in Digits(w)}
           \cup {[i \in 1..n |-> IF i % 2 = 1 THEN [k \in 1..w |-> k] ELSE e] :
                    n \in 2..MaxVecLen, e \in Digits(w)}
ShapeIndices(shape) == {i \in 1..Len(Variants) : Variants[i].shape = shape}
NVSample ==
    {NetworkValue("PrfKey", <<[i \in 1..16 |-> i * 15]>>),
     NetworkValue("PrfKey", <<[i \in 1..16 |-> 0]>>),
     NetworkValue("RingElementBit", <<<<1>>>>),
     NetworkValue("RingElementBit", <<<<0>>>>)}
    \cup UNION {{NetworkValue(Variants[i].name, <<d>>) :
                    d \in Digits(Variants[i].width)} : i \in ShapeIndices("int")}
    \cup UNION {{NetworkValue(Variants[i].name, ds) :
                    ds \in VecSample(Variants[i].width)} : i \in ShapeIndices("vec")}

\* tags that name no variant
BadTags == {<<10, 0, 0, 0>>, <<255, 255, 255, 255>>, <<0, 1, 0, 0>>,
            <<3, 0, 0, 128>>}

InitWire ==
    /\ nv_value \in NVSample
    /\ nv_wire = NoResult
    /\ nv_kind = "none"
    /\ nv_result = NoResult
    /\ nv_pc = "init"

\* the sender serializes the value; the bytes arrive whole
ToNetwork ==
    /\ nv_pc = "init"
    /\ nv_wire' = Ok(to_network(nv_value))
    /\ nv_kind' = "valid"
    /\ nv_pc' = "sent"
    /\ UNCHANGED <<nv_value, nv_result, notWire>>

\* the buffer is cut to a strict prefix
Truncate ==
    /\ nv_pc = "sent" /\ nv_kind = "valid"
    /\ \E n \in 0..(Len(nv_wire.val) - 1) :
          nv_wire' = Ok(SubSeq(nv_wire.val, 1, n))
    /\ nv_kind' = "truncated"
    /\ UNCHANGED <<nv_value, nv_result, nv_pc, notWire>>

\* the tag is replaced by one that names no variant
CorruptTag ==
    /\ nv_pc = "sent" /\ nv_kind = "valid"
    /\ \E t \in BadTags :
          nv_wire' = Ok(t \o SubSeq(nv_wire.val, 5, Len(nv_wire.val)))
    /\ nv_kind' = "badtag"
    /\ UNCHANGED <<nv_value, nv_result, nv_pc, notWire>>

\* the transport hands the receiver an Err instead of bytes
TransportError ==
    /\ nv_pc = "sent" /\ nv_kind = "valid"
    /\ nv_wire' = Err("network receive failed")
    /\ nv_kind' = "err"
    /\ UNCHANGED <<nv_value, nv_result, nv_pc, notWire>>

\* the receiver calls NetworkValue::from_network
FromNetwork ==
    /\ nv_pc = "sent"
    /\ nv_result' = from_network(nv_wire)
    /\ nv_pc' = "received"
    /\ UNCHANGED <<nv_value, nv_wire, nv_kind, notWire>>

---------------------------------------------------------------------------
(* threshold.rs: the arithmetic of the test                                *)

\* The operators + - * on Rust's integers panic on overflow in a build with
\* overflow checks (the dev and test profiles' default) and wrap in a build
\* without (the release profile's default): `checked` says which.

TwoTo16 == 2 ^ 16

\* x - y on u16
Sub16(x, y, checked) ==
    IF x < y
    THEN IF checked THEN Panic ELSE Ok(x - y + TwoTo16)
    ELSE Ok(x - y)

\* x + y on u16
Add16(x, y, checked) ==
    IF x + y >= TwoTo16
    THEN IF checked THEN Panic ELSE Ok(x + y - TwoTo16)
    ELSE Ok(x + y)

B_BITS == 16
B == 2 ^ B_BITS
\* MATCH_THRESHOLD_RATIO = 0.375 of iris_mpc_common::iris_db::iris, as a
\* fraction
RATIO_NUM == 375
RATIO_DEN == 1000
\* ((1. - 2. * MATCH_THRESHOLD_RATIO) * B as f64) as u64
A == ((RATIO_DEN - 2 * RATIO_NUM) * B) \div RATIO_DEN
\* IrisCodeArray::IRIS_CODE_SIZE
IRIS_CODE_SIZE == 12800

\* one element of sample_code_dots: x from gen_range(0..=IRIS_CODE_SIZE), neg
\* from gen::<bool>(); u16::MAX - x + 1 is (u16::MAX - x) + 1
sample_code_dot(x, neg, checked) ==
    IF neg THEN Add16(TwoTo16 - 1 - x, 1, checked) ELSE Ok(x)

rep_share_plus(value, id, a, b, checked) ==
    LET t == Sub16(value, a, checked)
        c == IF t.ok THEN Add16(t.val, b, checked) ELSE t
    IN  IF ~c.ok THEN Panic
        ELSE CASE id = 0 -> Ok(<<a, c.val>>)
               [] id = 1 -> Ok(<<b, a>>)
               [] id = 2 -> Ok(<<c.val, b>>)

rep_share_next(value, id, a, b, checked) ==
    LET t == Sub16(value, a, checked)
        c == IF t.ok THEN Sub16(t.val, b, checked) ELSE t
    IN  IF ~c.ok THEN Panic
        ELSE CASE id = 0 -> Ok(<<a, b>>)
               [] id = 1 -> Ok(<<b, c.val>>)
               [] id = 2 -> Ok(<<c.val, a>>)

\* rep_share(value, id, rng), a and b being the two draws: c = value - a - b
\* is (value - a) - b; party id gets its pair
rep_share(value, id, a, b, checked) ==
    LET t == Sub16(value, a, checked)
        c == IF t.ok THEN Sub16(t.val, b, checked) ELSE t
    IN  IF ~c.ok THEN Panic
        ELSE CASE id = 0 -> Ok(<<a, c.val>>)
               [] id = 1 -> Ok(<<b, a>>)
               [] id = 2 -> Ok(<<c.val, b>>)

\* The u64 of real_result_msb, in 16-bit limbs: m * A is below 2^30; shifted
\* left by B_BITS, c takes the limb above the lowest.  r % 2^(16 + B_BITS)
\* keeps the two low limbs <<hi, lo>> of the difference, whether it wrapped
\* at 2^64 or not.
MsbIndex == B_BITS + 16 - 1

real_result_msb_noshift(c, m, checked) ==
    IF m * A < c
    THEN IF checked THEN Panic ELSE Ok(1)
    ELSE Ok(0)

\* the body of real_result_msb's loop for one pair:
\*   r = ((m as u64) * A - ((c as u64) << B_BITS)) % mod_
\*   msb = r >> (B_BITS + 16 - 1) & 1 == 1
real_result_msb_one(c, m, checked) ==
    LET hiA == (m * A) \div B
    IN  IF hiA < c /\ checked THEN Panic
        ELSE LET hi == (hiA - c + TwoTo16) % TwoTo16
             IN  Ok((hi \div (2 ^ (MsbIndex - B_BITS))) % 2)

---------------------------------------------------------------------------
(* Specification SpecShare: rep_share as a pure function, called by the    *)
(* three parties with the same value and the same two draws.               *)

U16Sample == {0, 1, 2, 12800, 32768, 52736, 65535}
PartyIds == 0..2

InitShare ==
    /\ overflow_checks \in BOOLEAN
    /\ sh_value \in U16Sample
    /\ sh_a \in U16Sample
    /\ sh_b \in U16Sample
    /\ sh_out = [id \in PartyIds |-> NoResult]

RepShare(id) ==
    /\ sh_out[id] = NoResult
    /\ sh_out' = [sh_out EXCEPT
                     ![id] = rep_share(sh_value, id, sh_a, sh_b, overflow_checks)]
    /\ UNCHANGED <<sh_value, sh_a, sh_b, overflow_checks, notShare>>

---------------------------------------------------------------------------
(* Specification SpecMsb: the reference bit of one pair                    *)

\* Sampled dot-products: code dots as sample_code_dots makes them (x or its
\* two's complement, x in 0..IRIS_CODE_SIZE), mask dots in 0..IRIS_CODE_SIZE.
CodeMags == {0, 1, 2, 3, 4, 5, 100, 3199, 3200, 3201, 4800, 12799, 12800}
CodeDots == CodeMags \cup {TwoTo16 - x : x \in CodeMags \ {0}}
MaskDots == {0, 1, 2, 3, 4, 5, 8, 10, 12, 400, 12799, 12800}

InitMsb ==
    /\ overflow_checks \in BOOLEAN
    /\ msb_c \in CodeDots
    /\ msb_m \in MaskDots
    /\ msb_out = NoResult

RealResultMsb ==
    /\ msb_out = NoResult
    /\ msb_out' = real_result_msb_one(msb_c, msb_m, overflow_checks)
    /\ UNCHANGED <<msb_c, msb_m, overflow_checks, notMsb>>

---------------------------------------------------------------------------
(* threshold.rs: test_threshold and the open round                         *)

\* u64 words of packed bits: a word is its 64 bits, bit 0 first
WORD_BITS == 64
\* Scaled for model checking: the source sets INPUTS_PER_GPU_SIZE to
\* 12_507_136, that is 195_424 words per device, and runs 10 iterations.
WordsPerGpu == 1
MaxIters == 2
INPUTS_PER_GPU_SIZE == words_per_gpu * WORD_BITS
CHUNK_SIZE == INPUTS_PER_GPU_SIZE \div WORD_BITS
\* Bounds: the device counts and the rng seeds explored (the source seeds
\* every party's StdRng with 42)
MaxDevices == 2
MaxSeed == 1

\* The rng: every draw is a function of the seed and of the draw's place in
\* the stream, the same in every party's process.  The pools hold the
\* values the draws range over here.
CodeMagPool == <<0, 1, 3, 3200, 12800, 4800, 3201>>
MaskPool    == <<0, 1, 3, 4, 10, 12800, 12799>>
SharePool   == <<0, 1, 65535, 32768, 12345, 54321, 40000>>
Pick(pool, k) == pool[(k % Len(pool)) + 1]
\* gen_range(0..=IRIS_CODE_SIZE) and gen::<bool>() of sample_code_dots
DrawCodeMag(seed, i) == Pick(CodeMagPool, i - 1 + seed)
DrawCodeNeg(seed, i) == ((i - 1) \div Len(CodeMagPool) + i - 1 + seed) % 2 = 1
\* gen_range(0..=IRIS_CODE_SIZE) of sample_mask_dots
DrawMask(seed, i) == Pick(MaskPool, (i - 1) \div Len(CodeMagPool))
\* the two gen() of rep_share, for the code dots (which = 0) and the mask
\* dots (which = 1)
DrawShareA(seed, which, i) == Pick(SharePool, 3 * i + seed + 2 * which)
DrawShareB(seed, which, i) == Pick(SharePool, 5 * i + 2 * seed + which + 1)

AnyPanic(rs) == \E i \in 1..Len(rs) : ~rs[i].ok
Vals(rs) == [i \in 1..Len(rs) |-> rs[i].val]

\* sample_code_dots(size, rng)
sample_code_dots(size, seed, checked) ==
    LET rs == [i \in 1..size |->
                  sample_code_dot(DrawCodeMag(seed, i), DrawCodeNeg(seed, i), checked)]
    IN  IF AnyPanic(rs) THEN Panic ELSE Ok(Vals(rs))

\* sample_mask_dots(size, rng)
sample_mask_dots(size, seed) == [i \in 1..size |-> DrawMask(seed, i)]

\* rep_share_vec(value, id, rng)
rep_share_vec(value, id, seed, which, checked) ==
    LET rs == [i \in 1..Len(value) |->
                  rep_share(value[i], id, DrawShareA(seed, which, i),
                            DrawShareB(seed, which, i), checked)]
    IN  IF AnyPanic(rs) THEN Panic
        ELSE Ok([a |-> [i \in 1..Len(rs) |-> rs[i].val[1]],
                 b |-> [i \in 1..Len(rs) |-> rs[i].val[2]]])

to_gpu_first(a, b, ndev) ==
    LET ca == Chunks(a, INPUTS_PER_GPU_SIZE)
        cb == Chunks(b, INPUTS_PER_GPU_SIZE)
        n  == Min({ndev, Len(ca), Len(cb)})
    IN  [d \in 1..n |-> [a |-> ca[1], b |-> cb[1]]]

\* to_gpu(a, b, devices, streams): one ChunkShare per device, as many as
\* there are devices and chunks of INPUTS_PER_GPU_SIZE
to_gpu(a, b, ndev) ==
    LET ca == Chunks(a, INPUTS_PER_GPU_SIZE)
        cb == Chunks(b, INPUTS_PER_GPU_SIZE)
        n  == Min({ndev, Len(ca), Len(cb)})
    IN  [d \in 1..n |-> [a |-> ca[d], b |-> cb[d]]]

\* r |= u64::from(bit) << i over one chunk of at most 64 bits
PackWord(bits) == [i \in 1..WORD_BITS |-> IF i <= Len(bits) THEN bits[i] ELSE 0]

\* pack_with_device_padding(bits)
pack_with_device_padding(bits) ==
    IF Len(bits) % INPUTS_PER_GPU_SIZE # 0 THEN Panic
    ELSE LET devs == Chunks(bits, INPUTS_PER_GPU_SIZE)
         IN  Ok(Concat([d \in 1..Len(devs) |->
                   LET ws == Chunks(devs[d], WORD_BITS)
                   IN  [w \in 1..Len(ws) |-> PackWord(ws[w])]]))

real_result_msb_swapped(code_input, mask_input, checked) ==
    IF Len(code_input) # Len(mask_input) THEN Panic
    ELSE LET rs == [i \in 1..Len(code_input) |->
                       real_result_msb_one(mask_input[i], code_input[i], checked)]
         IN  IF AnyPanic(rs) THEN Panic
             ELSE pack_with_device_padding(Vals(rs))

\* real_result_msb(code_input, mask_input)
real_result_msb(code_input, mask_input, checked) ==
    IF Len(code_input) # Len(mask_input) THEN Panic
    ELSE LET rs == [i \in 1..Len(code_input) |->
                       real_result_msb_one(code_input[i], mask_input[i], checked)]
         IN  IF AnyPanic(rs) THEN Panic
             ELSE pack_with_device_padding(Vals(rs))

\* a ^ b on u64 words
XorWord(x, y) == [i \in 1..WORD_BITS |-> (x[i] + y[i]) % 2]
XorWords(xs, ys) == [w \in 1..Len(xs) |-> XorWord(xs[w], ys[w])]

\* Circuits::next_id and Circuits::prev_id
next_id(p) == (p + 1) % 3
prev_id(p) == (p + 2) % 3

\* ChunkShare::get_offset(i, CHUNK_SIZE) on one of the two buffers
get_offset(buf, i) == SubSeq(buf, i * CHUNK_SIZE + 1, (i + 1) * CHUNK_SIZE)

\* The comparison circuit (Circuits::compare_threshold_masked_many), from
\* its specification.  The bit of one pair is the most significant bit of
\* r = (m * A - (c << B_BITS)) mod 2^(16 + B_BITS), computed here in 16-bit
\* limbs on the values the three parties' additive shares add up to.
ThresholdMsb(c, m) ==
    LET hi == ((m * A) \div B - c + TwoTo16) % TwoTo16
    IN  hi \div (TwoTo16 \div 2)

\* The boolean shares the circuit leaves: x0 and x1 from the parties'
\* correlated randomness rnd, x2 = bit ^ x0 ^ x1.
XorShare(k, bit, rnd, j) ==
    LET x0 == (j + rnd) % 2
        x1 == (j \div 2 + rnd \div 2) % 2
    IN  CASE k = 0 -> x0
          [] k = 1 -> x1
          [] k = 2 -> (bit + x0 + x1) % 2

\* For device d: the bits of the pairs, then party p's result ChunkShare.
\* Party p holds the shares (x_p, x_{p-1}), as rep_share hands out the
\* inputs; the result bits are packed 64 to a word at offset 0, and the
\* words at offset 1 hold whatever the circuit left there.
CircuitBits(codes, masks, d) ==
    [j \in 1..Len(codes[0][d].a) |->
        ThresholdMsb((codes[0][d].a[j] + codes[1][d].a[j] + codes[2][d].a[j])
                        % TwoTo16,
                     (masks[0][d].a[j] + masks[1][d].a[j] + masks[2][d].a[j])
                        % TwoTo16)]

CircuitWords(bits, k, rnd) ==
    LET ws == Chunks([j \in 1..Len(bits) |-> XorShare(k, bits[j], rnd, j)],
                     WORD_BITS)
    IN  [w \in 1..Len(ws) |-> PackWord(ws[w])]

Scratch(rnd) == [w \in 1..CHUNK_SIZE |-> [i \in 1..WORD_BITS |-> rnd % 2]]

compare_threshold_masked_many(codes, masks, p, rnd) ==
    [d \in 1..Len(codes[p]) |->
        LET bits == CircuitBits(codes, masks, d)
        IN  [a |-> CircuitWords(bits, p, rnd) \o Scratch(rnd),
             b |-> CircuitWords(bits, prev_id(p), rnd) \o Scratch(rnd)]]

\* Circuits::take_result_buffer and Circuits::return_result_buffer, on the
\* flag that says whether the buffer is out
take_result_buffer(taken) == TRUE

return_result_buffer(taken) == FALSE

open_send_view_a(res) == get_offset(res.a, 0)

open_send_view_shifted(res) ==
    LET ws == get_offset(res.b, 0)
    IN  [w \in 1..Len(ws) |-> [i \in 1..WORD_BITS |-> ws[w][(i % WORD_BITS) + 1]]]

\* open, lines 125-133: the view sent to next_id is res.b at offset 0
open_send_view(res) == get_offset(res.b, 0)

open_receive_at0(res, view) ==
    [a |-> view \o get_offset(res.a, 1), b |-> res.b]

\* open, lines 134-140: the view received from prev_id is written to res.a
\* at offset 1
open_receive(res, view) ==
    [a |-> get_offset(res.a, 0) \o view, b |-> res.b]

open_result_reversed(bufs) ==
    Concat([d \in 1..Len(bufs) |->
               XorWords(get_offset(bufs[Len(bufs) + 1 - d].a, 0),
                        XorWords(get_offset(bufs[Len(bufs) + 1 - d].b, 0),
                                 get_offset(bufs[Len(bufs) + 1 - d].a, 1)))])

\* open, lines 143-155: a ^= b ^ c word by word, device after device
open_result(bufs) ==
    Concat([d \in 1..Len(bufs) |->
               XorWords(get_offset(bufs[d].a, 0),
                        XorWords(get_offset(bufs[d].b, 0),
                                 get_offset(bufs[d].a, 1)))])

---------------------------------------------------------------------------
(* Specification SpecThreshold: the three processes of test_threshold      *)

Seeds == 0..MaxSeed
DeviceCounts == 1..MaxDevices
ResultRand == 0..3

\* test_threshold before its first statement, but for the build's chunk
\* size and the number of devices
ThresholdStart ==
    /\ overflow_checks \in BOOLEAN
    /\ thr_seed \in Seeds
    /\ thr_iter = [p \in PartyIds |-> 0]
    /\ open_count = [p \in PartyIds |-> 0]
    /\ buf_taken = [p \in PartyIds |-> FALSE]
    /\ thr_rnd = 0
    /\ first_out = [p \in PartyIds |-> <<>>]
    /\ thr_pc = [p \in PartyIds |-> "start"]
    /\ code_gpu = [p \in PartyIds |-> <<>>]
    /\ mask_gpu = [p \in PartyIds |-> <<>>]
    /\ real_result = [p \in PartyIds |-> <<>>]
    /\ result_buf = [p \in PartyIds |-> <<>>]
    /\ open_out = [p \in PartyIds |-> <<>>]
    /\ correct = [p \in PartyIds |-> FALSE]

\* The ways to lay one batch of BatchWords words out: on n devices, n a
\* divisor of BatchWords, with a build whose INPUTS_PER_GPU_SIZE is the
\* n-th part of the batch.
BatchWords == MaxDevices * WordsPerGpu
Layouts == {n \in DeviceCounts : BatchWords % n = 0}

InitChunks ==
    /\ ThresholdStart
    /\ n_devices \in Layouts
    /\ words_per_gpu = BatchWords \div n_devices

InitThreshold ==
    /\ ThresholdStart
    /\ n_devices \in DeviceCounts
    /\ words_per_gpu = WordsPerGpu

\* test_threshold, lines 168-205: sample the dots, share them, compute the
\* reference, import the shares to the devices
Setup(p) ==
    /\ thr_pc[p] = "start"
    /\ LET size == INPUTS_PER_GPU_SIZE * n_devices
           code_dots == sample_code_dots(size, thr_seed, overflow_checks)
           mask_dots == sample_mask_dots(size, thr_seed)
           code_share == IF code_dots.ok
                         THEN rep_share_vec(code_dots.val, p, thr_seed, 0,
                                            overflow_checks)
                         ELSE Panic
           mask_share == rep_share_vec(mask_dots, p, thr_seed, 1, overflow_checks)
           real == IF code_dots.ok
                   THEN real_result_msb(code_dots.val, mask_dots, overflow_checks)
                   ELSE Panic
       IN  IF code_share.ok /\ mask_share.ok /\ real.ok
           THEN /\ code_gpu' = [code_gpu EXCEPT
                      ![p] = to_gpu(code_share.val.a, code_share.val.b, n_devices)]
                /\ mask_gpu' = [mask_gpu EXCEPT
                      ![p] = to_gpu(mask_share.val.a, mask_share.val.b, n_devices)]
                /\ real_result' = [real_result EXCEPT ![p] = real.val]
                /\ thr_pc' = [thr_pc EXCEPT ![p] = "ready"]
           ELSE /\ thr_pc' = [thr_pc EXCEPT ![p] = "panicked"]
                /\ UNCHANGED <<code_gpu, mask_gpu, real_result>>
    /\ UNCHANGED <<thr_seed, n_devices, result_buf, open_out, correct,
                   words_per_gpu, thr_iter, open_count, buf_taken, thr_rnd,
                   first_out, overflow_checks, notThr>>

\* test_threshold, lines 214-218: the three parties run the circuit together
\* and each takes its result buffer out of its Circuits
Compare ==
    /\ \A p \in PartyIds : thr_pc[p] = "ready"
    /\ \E rnd \in ResultRand :
          /\ thr_rnd' = rnd
          /\ result_buf' = [p \in PartyIds |->
                compare_threshold_masked_many(code_gpu, mask_gpu, p, rnd)]
    /\ thr_pc' = [p \in PartyIds |-> "compared"]
    /\ buf_taken' = [p \in PartyIds |-> take_result_buffer(buf_taken[p])]
    /\ first_out' = [p \in PartyIds |-> <<>>]
    /\ UNCHANGED <<thr_seed, n_devices, code_gpu, mask_gpu, real_result,
                   open_out, correct, words_per_gpu, thr_iter, open_count,
                   overflow_checks, notThr>>

\* q has issued its k-th open round
Issued(q, k) == open_count[q] >= k

\* open, lines 124-141: between group_start and group_end, per device a send
\* of the b share to next_id and a receive from prev_id into offset 1
OpenIssue(p) ==
    /\ thr_pc[p] = "compared"
    /\ thr_pc' = [thr_pc EXCEPT ![p] = "opening"]
    /\ open_count' = [open_count EXCEPT ![p] = @ + 1]
    /\ UNCHANGED <<thr_seed, n_devices, code_gpu, mask_gpu, real_result,
                   result_buf, open_out, correct, words_per_gpu, thr_iter,
                   buf_taken, thr_rnd, first_out, overflow_checks, notThr>>

\* open, lines 143-155, and test_threshold, lines 220-221: once the
\* neighbours have issued their side of the exchange, the received shares
\* are in place; the three shares are copied back and xored.
OpenComplete(p) ==
    /\ thr_pc[p] = "opening"
    /\ Issued(prev_id(p), open_count[p]) /\ Issued(next_id(p), open_count[p])
    /\ LET received ==
              [d \in 1..Len(result_buf[p]) |->
                  open_receive(result_buf[p][d],
                               open_send_view(result_buf[prev_id(p)][d]))]
       IN  /\ result_buf' = [result_buf EXCEPT ![p] = received]
           /\ open_out' = [open_out EXCEPT ![p] = open_result(received)]
    /\ thr_pc' = [thr_pc EXCEPT ![p] = "done"]
    /\ UNCHANGED <<thr_seed, n_devices, code_gpu, mask_gpu, real_result,
                   correct, words_per_gpu, thr_iter, open_count, buf_taken,
                   thr_rnd, first_out, overflow_checks, notThr>>

ReturnResultBuffer_skip(p) ==
    /\ thr_pc[p] = "done"
    /\ correct' = [correct EXCEPT ![p] =
          \A i \in 1..Min({Len(open_out[p]), Len(real_result[p])}) :
              open_out[p][i] = real_result[p][i]]
    /\ thr_iter' = [thr_iter EXCEPT ![p] = @ + 1]
    /\ thr_pc' = [thr_pc EXCEPT ![p] =
          IF thr_iter[p] + 1 < MaxIters THEN "ready" ELSE "finished"]
    /\ UNCHANGED <<thr_seed, n_devices, code_gpu, mask_gpu, real_result,
                   result_buf, open_out, words_per_gpu, open_count, thr_rnd,
                   first_out, buf_taken, overflow_checks, notThr>>

\* test_threshold, lines 222-236: the buffer goes back to Circuits, the
\* result is compared with the reference, and the loop goes on or ends.
ReturnResultBuffer(p) ==
    /\ thr_pc[p] = "done"
    /\ buf_taken' = [buf_taken EXCEPT ![p] = return_result_buffer(@)]
    /\ correct' = [correct EXCEPT ![p] =
          \A i \in 1..Min({Len(open_out[p]), Len(real_result[p])}) :
              open_out[p][i] = real_result[p][i]]
    /\ thr_iter' = [thr_iter EXCEPT ![p] = @ + 1]
    /\ thr_pc' = [thr_pc EXCEPT ![p] =
          IF thr_iter[p] + 1 < MaxIters THEN "ready" ELSE "finished"]
    /\ UNCHANGED <<thr_seed, n_devices, code_gpu, mask_gpu, real_result,
                   result_buf, open_out, words_per_gpu, open_count, thr_rnd,
                   first_out, overflow_checks, notThr>>

\* A party's process ends, or stalls for good, after the circuit and before
\* its open
PeerStops(p) ==
    /\ thr_pc[p] = "compared"
    /\ thr_pc' = [thr_pc EXCEPT ![p] = "stopped"]
    /\ UNCHANGED <<thr_seed, n_devices, code_gpu, mask_gpu, real_result,
                   result_buf, open_out, correct, words_per_gpu, thr_iter,
                   open_count, buf_taken, thr_rnd, first_out, overflow_checks,
                   notThr>>

\* open, lines 124-146: a send, a receive, group_end or a copy returns an
\* error, and its unwrap panics
OpenFails(p) ==
    /\ thr_pc[p] = "opening"
    /\ thr_pc' = [thr_pc EXCEPT ![p] = "panicked"]
    /\ UNCHANGED <<thr_seed, n_devices, code_gpu, mask_gpu, real_result,
                   result_buf, open_out, correct, words_per_gpu, thr_iter,
                   open_count, buf_taken, thr_rnd, first_out, overflow_checks,
                   notThr>>

\* A caller that runs open once more on the result buffer it holds, keeping
\* what the first open returned
OpenAgain(p) ==
    /\ thr_pc[p] = "done"
    /\ first_out[p] = <<>>
    /\ first_out' = [first_out EXCEPT ![p] = open_out[p]]
    /\ thr_pc' = [thr_pc EXCEPT ![p] = "compared"]
    /\ UNCHANGED <<thr_seed, n_devices, code_gpu, mask_gpu, real_result,
                   result_buf, open_out, correct, words_per_gpu, thr_iter,
                   open_count, buf_taken, thr_rnd, overflow_checks, notThr>>

---------------------------------------------------------------------------
(* threshold.rs: open call by call.  Between group_start and group_end the *)
(* NCCL calls are only queued; group_end launches them on their streams; a *)
(* send and the matching receive of the neighbour then complete together,  *)
(* and dtoh_on_stream_sync returns once its stream has run what it holds.  *)

\* the numbers of devices a party may have
GrpDeviceCounts == {1, 2}
GrpDevicePool == 1..(CHOOSE n \in GrpDeviceCounts :
                        \A k \in GrpDeviceCounts : k <= n)

\* a call of open, as logged: group_start, send_view, receive_view,
\* group_end or dtoh_on_stream_sync, with the device index of its loop
Call(name, idx) == [call |-> name, idx |-> idx]

\* the b share of a party's device, and no share
ShareB_of(p, d) == [from |-> p, dev |-> d]
NoShare == [from |-> 3, dev |-> 0]

send_view_blocks(p, d) ==
    Call("receive_view", d) \in grp_launched[next_id(p)]

\* send_view inside a group (lines 124-129): the call queues the send and
\* returns
send_view_returns(p, d) == TRUE

InitGroup ==
    /\ grp_ndev \in GrpDeviceCounts
    /\ grp_pc = [p \in PartyIds |-> "start"]
    /\ grp_idx = [p \in PartyIds |-> 1]
    /\ grp_log = [p \in PartyIds |-> <<>>]
    /\ grp_queued = [p \in PartyIds |-> {}]
    /\ grp_launched = [p \in PartyIds |-> {}]
    /\ grp_sent = [p \in PartyIds |-> {}]
    /\ grp_recv = [p \in PartyIds |-> [d \in 1..grp_ndev |-> NoShare]]
    /\ grp_host = [p \in PartyIds |-> <<>>]

\* open, line 124: group_start
GroupStart(p) ==
    /\ grp_pc[p] = "start"
    /\ grp_log' = [grp_log EXCEPT ![p] = Append(@, Call("group_start", 0))]
    /\ grp_pc' = [grp_pc EXCEPT ![p] = "send"]
    /\ UNCHANGED <<grp_ndev, grp_idx, grp_queued, grp_launched, grp_sent,
                   grp_recv, grp_host, notGrp>>

\* open, lines 125-133: one iteration of the first loop, send_view of the b
\* share of device idx to next_id
SendView(p) ==
    /\ grp_pc[p] = "send"
    /\ send_view_returns(p, grp_idx[p])
    /\ grp_log' = [grp_log EXCEPT ![p] = Append(@, Call("send_view", grp_idx[p]))]
    /\ grp_queued' = [grp_queued EXCEPT ![p] = @ \cup {Call("send_view", grp_idx[p])}]
    /\ IF grp_idx[p] < grp_ndev
       THEN /\ grp_idx' = [grp_idx EXCEPT ![p] = @ + 1]
            /\ UNCHANGED grp_pc
       ELSE /\ grp_idx' = [grp_idx EXCEPT ![p] = 1]
            /\ grp_pc' = [grp_pc EXCEPT ![p] = "receive"]
    /\ UNCHANGED <<grp_ndev, grp_launched, grp_sent, grp_recv, grp_host,
                   notGrp>>

\* open, lines 134-140: one iteration of the second loop, receive_view from
\* prev_id into offset 1 of device idx
ReceiveView(p) ==
    /\ grp_pc[p] = "receive"
    /\ grp_log' = [grp_log EXCEPT ![p] = Append(@, Call("receive_view", grp_idx[p]))]
    /\ grp_queued' = [grp_queued EXCEPT ![p] = @ \cup {Call("receive_view", grp_idx[p])}]
    /\ IF grp_idx[p] < grp_ndev
       THEN /\ grp_idx' = [grp_idx EXCEPT ![p] = @ + 1]
            /\ UNCHANGED grp_pc
       ELSE /\ grp_idx' = [grp_idx EXCEPT ![p] = 1]
            /\ grp_pc' = [grp_pc EXCEPT ![p] = "end"]
    /\ UNCHANGED <<grp_ndev, grp_launched, grp_sent, grp_recv, grp_host,
                   notGrp>>

\* open, line 141: group_end launches what the group queued
GroupEnd(p) ==
    /\ grp_pc[p] = "end"
    /\ grp_log' = [grp_log EXCEPT ![p] = Append(@, Call("group_end", 0))]
    /\ grp_launched' = [grp_launched EXCEPT ![p] = @ \cup grp_queued[p]]
    /\ grp_queued' = [grp_queued EXCEPT ![p] = {}]
    /\ grp_pc' = [grp_pc EXCEPT ![p] = "dtoh"]
    /\ UNCHANGED <<grp_ndev, grp_idx, grp_sent, grp_recv, grp_host, notGrp>>

\* the launched send of p's device d and the launched receive of its next
\* neighbour's device d complete together
Transfer(p, d) ==
    /\ d \in 1..grp_ndev
    /\ Call("send_view", d) \in grp_launched[p]
    /\ Call("receive_view", d) \in grp_launched[next_id(p)]
    /\ d \notin grp_sent[p]
    /\ grp_sent' = [grp_sent EXCEPT ![p] = @ \cup {d}]
    /\ grp_recv' = [grp_recv EXCEPT ![next_id(p)][d] = ShareB_of(p, d)]
    /\ UNCHANGED <<grp_ndev, grp_pc, grp_idx, grp_log, grp_queued,
                   grp_launched, grp_host, notGrp>>

\* open, lines 143-155: one iteration of the third loop; dtoh_on_stream_sync
\* returns when the stream of device idx has run its send and its receive;
\* after the last device the result is returned
Dtoh(p) ==
    /\ grp_pc[p] = "dtoh"
    /\ grp_idx[p] \in grp_sent[p]
    /\ grp_recv[p][grp_idx[p]] # NoShare
    /\ grp_log' = [grp_log EXCEPT ![p] = Append(@, Call("dtoh", grp_idx[p]))]
    /\ grp_host' = [grp_host EXCEPT ![p] = Append(@, grp_recv[p][grp_idx[p]])]
    /\ IF grp_idx[p] < grp_ndev
       THEN /\ grp_idx' = [grp_idx EXCEPT ![p] = @ + 1]
            /\ UNCHANGED grp_pc
       ELSE /\ grp_idx' = [grp_idx EXCEPT ![p] = 1]
            /\ grp_pc' = [grp_pc EXCEPT ![p] = "done"]
    /\ UNCHANGED <<grp_ndev, grp_queued, grp_launched, grp_sent, grp_recv,
                   notGrp>>

---------------------------------------------------------------------------
(* client.rs: the request-building loop of main and the response-receiving *)
(* task it spawns, with the three tokio mutexes they share.  A guard lives *)
(* to the end of the statement that locked it when it is a temporary, and  *)
(* to the end of the enclosing block when it is bound with `let`.          *)

\* Bounds: N_QUERIES of the source is 64 * 5; DB_SIZE is 8 * 1_000
N_QUERIES == 2
DB_SIZE == 1
\* the results one request gets, one of each party (N_QUERIES * 3 polls)
RESULTS_PER_QUERY == 3

Tasks == {"main", "recv"}
Mutexes == {"expected_results", "requests", "responses"}
RequestIds == 1..N_QUERIES
\* the identifier of a message left in the queue by an earlier run
StaleId == 0

\* an IrisCode, by where it came from
IrisCode(src, n) == [src |-> src, n |-> n]
NoCode == IrisCode("none", 0)

\* the serial id the servers give a new insertion
SerialOf(id) == DB_SIZE + id - 1

\* HashMap::insert
Insert(map, k, v) == [x \in DOMAIN map \cup {k} |-> IF x = k THEN v ELSE map[x]]
EmptyMap == [x \in {} |-> 0]

Lock(m, t) == [cli_holder EXCEPT ![m] = t]
Unlock(m) == [cli_holder EXCEPT ![m] = "none"]
Free(m) == cli_holder[m] = "none"

InitClient ==
    /\ cli_random \in BOOLEAN
    /\ cli_pc = [t \in Tasks |-> IF t = "main" THEN "build" ELSE "poll"]
    /\ cli_holder = [m \in Mutexes |-> "none"]
    /\ cli_query = 0
    /\ cli_template = NoCode
    /\ cli_expected = EmptyMap
    /\ cli_requests = EmptyMap
    /\ cli_responses = EmptyMap
    /\ \E stale \in 0..1 :
          cli_queue = [id \in {StaleId} \cup RequestIds |->
                          IF id = StaleId THEN stale ELSE 0]
    /\ cli_msg = StaleId
    /\ cli_polls = 0

\* main, lines 156-160 and 199-211: the next query; without --random the
\* template comes from the command line and nothing is expected of it
MainBuild ==
    /\ cli_pc["main"] = "build"
    /\ cli_query < N_QUERIES
    /\ IF cli_random
       THEN /\ cli_pc' = [cli_pc EXCEPT !["main"] = "len"]
            /\ UNCHANGED cli_template
       ELSE /\ cli_pc' = [cli_pc EXCEPT !["main"] = "requests"]
            /\ cli_template' = IrisCode("cli", cli_query + 1)
    /\ UNCHANGED <<cli_random, cli_holder, cli_query, cli_expected,
                   cli_requests, cli_responses, cli_queue, cli_msg, cli_polls,
                   notCli>>

\* main, lines 162-167: `responses.lock().await.len() == 0`, the guard a
\* temporary of the condition, then the choice among the options
MainChoose ==
    /\ cli_pc["main"] = "len"
    /\ Free("responses")
    /\ LET options == IF DOMAIN cli_responses = {} THEN 2 ELSE 3
       IN  \E choice \in 0..(options - 1) :
              cli_pc' = [cli_pc EXCEPT !["main"] =
                            CASE choice = 0 -> "new"
                              [] choice = 1 -> "from_db"
                              [] choice = 2 -> "fresh"]
    /\ UNCHANGED <<cli_random, cli_holder, cli_query, cli_template,
                   cli_expected, cli_requests, cli_responses, cli_queue,
                   cli_msg, cli_polls, notCli>>

\* main, lines 168-175: a new iris code, expected to be inserted
MainNew ==
    /\ cli_pc["main"] = "new"
    /\ Free("expected_results")
    /\ cli_expected' = Insert(cli_expected, cli_query + 1, None)
    /\ cli_template' = IrisCode("random", cli_query + 1)
    /\ cli_pc' = [cli_pc EXCEPT !["main"] = "requests"]
    /\ UNCHANGED <<cli_random, cli_holder, cli_query, cli_requests,
                   cli_responses, cli_queue, cli_msg, cli_polls, notCli>>

\* main, lines 176-184: an iris code of the database, expected to match
MainFromDb ==
    /\ cli_pc["main"] = "from_db"
    /\ Free("expected_results")
    /\ \E db_index \in 0..(DB_SIZE - 1) :
          /\ cli_expected' = Insert(cli_expected, cli_query + 1, Some(db_index))
          /\ cli_template' = IrisCode("db", db_index)
    /\ cli_pc' = [cli_pc EXCEPT !["main"] = "requests"]
    /\ UNCHANGED <<cli_random, cli_holder, cli_query, cli_requests,
                   cli_responses, cli_queue, cli_msg, cli_polls, notCli>>

\* main, line 187: `let tmp = responses.lock().await`, held to the end of
\* the match arm
MainFreshLock ==
    /\ cli_pc["main"] = "fresh"
    /\ Free("responses")
    /\ cli_holder' = Lock("responses", "main")
    /\ cli_pc' = [cli_pc EXCEPT !["main"] = "fresh_expected"]
    /\ UNCHANGED <<cli_random, cli_query, cli_template, cli_expected,
                   cli_requests, cli_responses, cli_queue, cli_msg, cli_polls,
                   notCli>>

\* main, lines 188-196: with `tmp` held, expected_results is locked for the
\* insert; `tmp` is dropped at the end of the arm
MainFreshExpected ==
    /\ cli_pc["main"] = "fresh_expected"
    /\ Free("expected_results")
    /\ \E key \in DOMAIN cli_responses :
          /\ cli_expected' = Insert(cli_expected, cli_query + 1, Some(key))
          /\ cli_template' = cli_responses[key]
    /\ cli_holder' = Unlock("responses")
    /\ cli_pc' = [cli_pc EXCEPT !["main"] = "requests"]
    /\ UNCHANGED <<cli_random, cli_query, cli_requests, cli_responses,
                   cli_queue, cli_msg, cli_polls, notCli>>

\* main, lines 213-216: the template is kept under its request id
MainRequests ==
    /\ cli_pc["main"] = "requests"
    /\ Free("requests")
    /\ cli_requests' = Insert(cli_requests, cli_query + 1, cli_template)
    /\ cli_pc' = [cli_pc EXCEPT !["main"] = "publish"]
    /\ UNCHANGED <<cli_random, cli_holder, cli_query, cli_template,
                   cli_expected, cli_responses, cli_queue, cli_msg, cli_polls,
                   notCli>>

\* main, lines 218-273: the three shares are published; each party will
\* answer with one result
MainPublish ==
    /\ cli_pc["main"] = "publish"
    /\ cli_queue' = [cli_queue EXCEPT ![cli_query + 1] = @ + RESULTS_PER_QUERY]
    /\ cli_query' = cli_query + 1
    /\ cli_pc' = [cli_pc EXCEPT !["main"] = "build"]
    /\ UNCHANGED <<cli_random, cli_holder, cli_template, cli_expected,
                   cli_requests, cli_responses, cli_msg, cli_polls, notCli>>

\* main, lines 276-281: all queries sent, main joins the receiving task
MainJoin ==
    /\ cli_pc["main"] = "build"
    /\ cli_query = N_QUERIES
    /\ cli_pc["recv"] = "done"
    /\ cli_pc' = [cli_pc EXCEPT !["main"] = "done"]
    /\ UNCHANGED <<cli_random, cli_holder, cli_query, cli_template,
                   cli_expected, cli_requests, cli_responses, cli_queue,
                   cli_msg, cli_polls, notCli>>

\* recv_thread, lines 92-102: one receive_message of at most one message;
\* the queue may hand out any pending result, or none
RecvPoll ==
    /\ cli_pc["recv"] = "poll"
    /\ cli_polls < N_QUERIES * RESULTS_PER_QUERY
    /\ \/ \E id \in DOMAIN cli_queue :
             /\ cli_queue[id] > 0
             /\ cli_queue' = [cli_queue EXCEPT ![id] = @ - 1]
             /\ cli_msg' = id
             /\ cli_pc' = [cli_pc EXCEPT !["recv"] = "lock_expected"]
             /\ UNCHANGED cli_polls
       \/ /\ cli_polls' = cli_polls + 1
          /\ UNCHANGED <<cli_queue, cli_msg, cli_pc>>
    /\ UNCHANGED <<cli_random, cli_holder, cli_query, cli_template,
                   cli_expected, cli_requests, cli_responses, notCli>>

\* recv_thread, lines 92 and 152: the polls are used up
RecvEnd ==
    /\ cli_pc["recv"] = "poll"
    /\ cli_polls = N_QUERIES * RESULTS_PER_QUERY
    /\ cli_pc' = [cli_pc EXCEPT !["recv"] = "done"]
    /\ UNCHANGED <<cli_random, cli_holder, cli_query, cli_template,
                   cli_expected, cli_requests, cli_responses, cli_queue,
                   cli_msg, cli_polls, notCli>>

\* recv_thread, lines 108-120: `let tmp = thread_expected_results.lock()
\* .await`, held to the end of the loop body; a result nobody expects is
\* skipped (and stays in the queue), the guard dropped by `continue`
RecvLockExpected ==
    /\ cli_pc["recv"] = "lock_expected"
    /\ Free("expected_results")
    /\ IF cli_msg \notin DOMAIN cli_expected
       THEN /\ cli_queue' = [cli_queue EXCEPT ![cli_msg] = @ + 1]
            /\ cli_polls' = cli_polls + 1
            /\ cli_pc' = [cli_pc EXCEPT !["recv"] = "poll"]
            /\ UNCHANGED cli_holder
       ELSE /\ cli_holder' = Lock("expected_results", "recv")
            /\ cli_pc' = [cli_pc EXCEPT !["recv"] =
                  IF cli_expected[cli_msg] = None THEN "get_request"
                                                  ELSE "delete"]
            /\ UNCHANGED <<cli_queue, cli_polls>>
    /\ UNCHANGED <<cli_random, cli_query, cli_template, cli_expected,
                   cli_requests, cli_responses, cli_msg, notCli>>

\* recv_thread, lines 123-128: with `tmp` held, requests is locked for the
\* lookup; .unwrap() panics on a request that is not there, which drops
\* `tmp`
RecvGetRequest ==
    /\ cli_pc["recv"] = "get_request"
    /\ Free("requests")
    /\ IF cli_msg \in DOMAIN cli_requests
       THEN /\ cli_pc' = [cli_pc EXCEPT !["recv"] = "insert_response"]
            /\ UNCHANGED cli_holder
       ELSE /\ cli_pc' = [cli_pc EXCEPT !["recv"] = "panicked"]
            /\ cli_holder' = Unlock("expected_results")
    /\ UNCHANGED <<cli_random, cli_query, cli_template, cli_expected,
                   cli_requests, cli_responses, cli_queue, cli_msg, cli_polls,
                   notCli>>

\* recv_thread, lines 129-132: with `tmp` held, responses is locked for the
\* insert of the request under the serial id of the result
RecvInsertResponse ==
    /\ cli_pc["recv"] = "insert_response"
    /\ Free("responses")
    /\ cli_responses' = Insert(cli_responses, SerialOf(cli_msg),
                               cli_requests[cli_msg])
    /\ cli_pc' = [cli_pc EXCEPT !["recv"] = "delete"]
    /\ UNCHANGED <<cli_random, cli_holder, cli_query, cli_template,
                   cli_expected, cli_requests, cli_queue, cli_msg, cli_polls,
                   notCli>>

\* recv_thread, lines 143-150: the message is deleted from the queue; the
\* loop body ends and `tmp` is dropped
RecvDelete ==
    /\ cli_pc["recv"] = "delete"
    /\ cli_holder' = Unlock("expected_results")
    /\ cli_polls' = cli_polls + 1
    /\ cli_pc' = [cli_pc EXCEPT !["recv"] = "poll"]
    /\ UNCHANGED <<cli_random, cli_query, cli_template, cli_expected,
                   cli_requests, cli_responses, cli_queue, cli_msg, notCli>>

---------------------------------------------------------------------------
(* device_manager.rs: events between the streams of a device.  The host    *)
(* enqueues work, event records and event waits on CUDA streams; a stream  *)
(* runs what it was given in order, a record fires when the stream reaches *)
(* it, and a wait holds its stream until the record it saw has fired.      *)

\* Bound: the calls the host makes (work submitted, record_event,
\* await_event)
MaxHostCalls == 4

\* the numbers of devices DeviceManager::init may find
EvDeviceCounts == {1, 2}
EvDevices == 1..ev_ndev
\* the two vectors of streams of fork_streams, one stream per device each
StreamSets == {"A", "B"}
Streams == StreamSets \X EvDevices
\* the streams of the largest machine
StreamPool == StreamSets \X (1..(CHOOSE n \in EvDeviceCounts :
                                    \A k \in EvDeviceCounts : k <= n))

WorkItem(n) == [kind |-> "work", ev |-> 0, n |-> n]
\* event::record(events[ev], stream): the n-th record of the event
RecordItem(ev, n) == [kind |-> "record", ev |-> ev, n |-> n]
\* wait_event(stream, events[ev]) issued when the event had n records
WaitItem(ev, n) == [kind |-> "wait", ev |-> ev, n |-> n]
Idle == [kind |-> "idle", ev |-> 0, n |-> 0]

\* record_event(streams, events): for every device idx,
\* event::record(events[idx], streams[idx].stream)
record_event(set, queues, gen) ==
    [s \in Streams |->
        IF s[1] = set
        THEN Append(queues[s], RecordItem(s[2], gen[s[2]] + 1))
        ELSE queues[s]]

await_event_crossed(set, queues, gen) ==
    [s \in Streams |->
        IF s[1] = set
        THEN Append(queues[s],
                    WaitItem((s[2] % ev_ndev) + 1, gen[(s[2] % ev_ndev) + 1]))
        ELSE queues[s]]

\* await_event(streams, events): for every device idx,
\* wait_event(streams[idx].stream, events[idx], CU_EVENT_WAIT_DEFAULT)
await_event(set, queues, gen) ==
    [s \in Streams |->
        IF s[1] = set
        THEN Append(queues[s], WaitItem(s[2], gen[s[2]]))
        ELSE queues[s]]

InitEvents ==
    /\ ev_ndev \in EvDeviceCounts
    /\ ev_stream = [s \in Streams |-> <<>>]
    /\ ev_running = [s \in Streams |-> Idle]
    /\ ev_gen = [i \in EvDevices |-> 0]
    /\ ev_fired = [i \in EvDevices |-> 0]
    /\ ev_awaited = [i \in EvDevices |-> 0]
    /\ ev_calls = 0
    /\ ev_work = <<>>
    /\ ev_started = {}
    /\ ev_completed = {}
    /\ ev_uses = {}

\* the host submits a kernel or a copy to a stream (as htod_transfer_query
\* does); the item remembers the records and waits the host had issued
Submit(s) ==
    /\ s \in Streams
    /\ ev_calls < MaxHostCalls
    /\ ev_calls' = ev_calls + 1
    /\ ev_work' = Append(ev_work,
          [stream |-> s,
           epoch  |-> ev_gen[s[2]],
           after  |-> IF s[1] = "B" THEN ev_awaited[s[2]] ELSE 0])
    /\ ev_stream' = [ev_stream EXCEPT ![s] = Append(@, WorkItem(Len(ev_work) + 1))]
    /\ UNCHANGED <<ev_ndev, ev_running, ev_gen, ev_fired, ev_awaited,
                   ev_started, ev_completed, ev_uses, notEv>>

\* record_event(streamsA, events): returns once the records are enqueued
RecordEvent ==
    /\ ev_calls < MaxHostCalls
    /\ ev_calls' = ev_calls + 1
    /\ ev_stream' = record_event("A", ev_stream, ev_gen)
    /\ ev_gen' = [i \in EvDevices |-> ev_gen[i] + 1]
    /\ ev_uses' = ev_uses \cup
          {<<ev_stream'[s][Len(ev_stream'[s])].ev, s>> :
              s \in {t \in Streams : t[1] = "A"}}
    /\ UNCHANGED <<ev_ndev, ev_running, ev_fired, ev_awaited, ev_work,
                   ev_started, ev_completed, notEv>>

\* await_event(streamsB, events): returns once the waits are enqueued
AwaitEvent ==
    /\ ev_calls < MaxHostCalls
    /\ ev_stream' = await_event("B", ev_stream, ev_gen)
    /\ ev_calls' = ev_calls + 1
    /\ ev_awaited' = ev_gen
    /\ ev_uses' = ev_uses \cup
          {<<ev_stream'[s][Len(ev_stream'[s])].ev, s>> :
              s \in {t \in Streams : t[1] = "B"}}
    /\ UNCHANGED <<ev_ndev, ev_running, ev_gen, ev_fired, ev_work, ev_started,
                   ev_completed, notEv>>

\* a stream starts the work at its head when it runs nothing
StreamStart(s) ==
    /\ s \in Streams
    /\ ev_running[s] = Idle
    /\ ev_stream[s] # <<>>
    /\ Head(ev_stream[s]).kind = "work"
    /\ ev_running' = [ev_running EXCEPT ![s] = Head(ev_stream[s])]
    /\ ev_stream' = [ev_stream EXCEPT ![s] = Tail(@)]
    /\ ev_started' = ev_started \cup {Head(ev_stream[s]).n}
    /\ UNCHANGED <<ev_ndev, ev_gen, ev_fired, ev_awaited, ev_calls, ev_work,
                   ev_completed, ev_uses, notEv>>

\* the work a stream runs completes
StreamComplete(s) ==
    /\ s \in Streams
    /\ ev_running[s] # Idle
    /\ ev_completed' = ev_completed \cup {ev_running[s].n}
    /\ ev_running' = [ev_running EXCEPT ![s] = Idle]
    /\ UNCHANGED <<ev_ndev, ev_stream, ev_gen, ev_fired, ev_awaited, ev_calls,
                   ev_work, ev_started, ev_uses, notEv>>

\* a stream reaches a record: the event has fired for that record
StreamRecord(s) ==
    /\ s \in Streams
    /\ ev_running[s] = Idle
    /\ ev_stream[s] # <<>>
    /\ Head(ev_stream[s]).kind = "record"
    /\ ev_fired' = [ev_fired EXCEPT ![Head(ev_stream[s]).ev] = Head(ev_stream[s]).n]
    /\ ev_stream' = [ev_stream EXCEPT ![s] = Tail(@)]
    /\ UNCHANGED <<ev_ndev, ev_running, ev_gen, ev_awaited, ev_calls, ev_work,
                   ev_started, ev_completed, ev_uses, notEv>>

\* a stream passes a wait once the record the wait saw has fired; a wait on
\* an event never recorded passes at once
StreamWait(s) ==
    /\ s \in Streams
    /\ ev_running[s] = Idle
    /\ ev_stream[s] # <<>>
    /\ Head(ev_stream[s]).kind = "wait"
    /\ ev_fired[Head(ev_stream[s]).ev] >= Head(ev_stream[s]).n
    /\ ev_stream' = [ev_stream EXCEPT ![s] = Tail(@)]
    /\ UNCHANGED <<ev_ndev, ev_running, ev_gen, ev_fired, ev_awaited, ev_calls,
                   ev_work, ev_started, ev_completed, ev_uses, notEv>>

---------------------------------------------------------------------------
(* smpc_request.rs: decrypt_iris_share.  A share is a base64 string; its   *)
(* bytes are a sealed box for one key pair, or not a sealed box at all;    *)
(* what the box holds is the JSON of an IrisCodesJSON, text that is not    *)
(* that JSON, or bytes that are not UTF-8.                                 *)

\* the key pairs of the test: 1 and 2; a share sealed for 0 opens with none
KeyPairIds == {1, 2}
SealedFor == {0} \cup KeyPairIds
Payloads == {"IrisCodesJSON", "not_json", "not_utf8"}

\* the share strings handed in
ShareStrings ==
    [base64 : BOOLEAN, sealed_for : SealedFor, payload : Payloads]

NoShareString == [base64 |-> FALSE, sealed_for |-> 0, payload |-> "not_utf8"]

\* SharesEncryptionKeyPairs: current_key_pair and Option<previous_key_pair>
SharesEncryptionKeyPairs ==
    [current_key_pair : KeyPairIds,
     previous_key_pair : {None} \cup {Some(k) : k \in KeyPairIds}]

NoBytes == [sealed_for |-> 0, payload |-> "none"]

\* STANDARD.decode(share.as_bytes()).map_err(|_| Base64DecodeError)
decode(share) ==
    IF share.base64
    THEN Ok([sealed_for |-> share.sealed_for, payload |-> share.payload])
    ELSE Err("Base64DecodeError")

\* key_pair.open_sealed_box(bytes): the content for the key pair the box
\* was sealed for, an error for every other
open_sealed_box(key_pair, bytes) ==
    IF bytes.sealed_for = key_pair
    THEN Ok(bytes.payload)
    ELSE Err("SealedBoxOpenError")

open_previous_unmapped(key_pairs, bytes) ==
    IF key_pairs.previous_key_pair.some
    THEN open_sealed_box(key_pairs.previous_key_pair.v, bytes)
    ELSE Err("PreviousKeyNotFound")

\* the arm taken when the current key pair fails: the previous key pair if
\* there is one, and SealedBoxOpenError for whatever went wrong
open_previous(key_pairs, bytes) ==
    LET r == IF key_pairs.previous_key_pair.some
             THEN open_sealed_box(key_pairs.previous_key_pair.v, bytes)
             ELSE Err("PreviousKeyNotFound")
    IN  IF r.ok THEN Ok(r.val) ELSE Err("SealedBoxOpenError")

\* String::from_utf8 and serde_json::from_str on the decrypted bytes
parse_iris_share(payload) ==
    IF payload = "not_utf8" THEN Err("DecodedShareParsingToUTF8Error")
    ELSE IF payload = "not_json" THEN Err("SerdeError")
    ELSE Ok(payload)

\* decrypt_iris_share as a function of its arguments
decrypt_iris_share(share, key_pairs) ==
    LET share_bytes == decode(share)
    IN  IF ~share_bytes.ok THEN share_bytes
        ELSE LET current == open_sealed_box(key_pairs.current_key_pair,
                                            share_bytes.val)
                 decrypted == IF current.ok THEN current
                              ELSE open_previous(key_pairs, share_bytes.val)
             IN  IF decrypted.ok THEN parse_iris_share(decrypted.val)
                 ELSE decrypted

InitDecrypt ==
    /\ dec_share \in ShareStrings
    /\ dec_keys \in SharesEncryptionKeyPairs
    /\ dec_pc = "start"
    /\ dec_tried = <<>>
    /\ dec_bytes = NoBytes
    /\ dec_result = NoResult

\* lines 172-174
DecDecode ==
    /\ dec_pc = "start"
    /\ LET share_bytes == decode(dec_share)
       IN  IF share_bytes.ok
           THEN /\ dec_bytes' = share_bytes.val
                /\ dec_pc' = "decoded"
                /\ UNCHANGED dec_result
           ELSE /\ dec_result' = share_bytes
                /\ dec_pc' = "done"
                /\ UNCHANGED dec_bytes
    /\ UNCHANGED <<dec_share, dec_keys, dec_tried, notDec>>

\* lines 178-183
DecOpenCurrent ==
    /\ dec_pc = "decoded"
    /\ dec_tried' = Append(dec_tried, "current")
    /\ LET current == open_sealed_box(dec_keys.current_key_pair, dec_bytes)
       IN  IF current.ok
           THEN /\ dec_bytes' = [dec_bytes EXCEPT !.payload = current.val]
                /\ dec_pc' = "opened"
           ELSE /\ dec_pc' = "previous"
                /\ UNCHANGED dec_bytes
    /\ UNCHANGED <<dec_share, dec_keys, dec_result, notDec>>

\* lines 184-191 and, for the error, 204
DecOpenPrevious ==
    /\ dec_pc = "previous"
    /\ dec_tried' = IF dec_keys.previous_key_pair.some
                    THEN Append(dec_tried, "previous")
                    ELSE dec_tried
    /\ LET decrypted == open_previous(dec_keys, dec_bytes)
       IN  IF decrypted.ok
           THEN /\ dec_bytes' = [dec_bytes EXCEPT !.payload = decrypted.val]
                /\ dec_pc' = "opened"
                /\ UNCHANGED dec_result
           ELSE /\ dec_result' = decrypted
                /\ dec_pc' = "done"
                /\ UNCHANGED dec_bytes
    /\ UNCHANGED <<dec_share, dec_keys, notDec>>

\* lines 195-207
DecParse ==
    /\ dec_pc = "opened"
    /\ dec_result' = parse_iris_share(dec_bytes.payload)
    /\ dec_pc' = "done"
    /\ UNCHANGED <<dec_share, dec_keys, dec_tried, dec_bytes, notDec>>

---------------------------------------------------------------------------
(* smpc_request.rs: get_iris_data_by_party_id.  Retry::spawn runs the GET  *)
(* once and, while it fails, once more after each delay the strategy still *)
(* has; the strategy is five delays of about 200 ms.  S3_HTTP_CLIENT is    *)
(* Client::new(), a client without a timeout: a send returns when the      *)
(* server answers or the connection fails.                                 *)

\* FixedInterval::from_millis(200).map(jitter).take(5)
RETRIES == 5

\* party_id is a usize; the parties are 0, 1 and 2
MaxPartyId == 3
PartyIdArgs == 0..MaxPartyId

ShareNames == {"share_a", "share_b"}

\* the shares files a bucket may hold
SharesS3Object ==
    [iris_share_0 : ShareNames, iris_share_1 : ShareNames,
     iris_share_2 : ShareNames]

NoFile == [iris_share_0 |-> "", iris_share_1 |-> "", iris_share_2 |-> ""]

Statuses == {200, 403}

\* what a send that succeeds returns: a status and a body, which is the
\* JSON of a shares file or is not
Responses ==
    [status : Statuses, json : {TRUE}, file : SharesS3Object]
        \cup [status : Statuses, json : {FALSE}, file : {NoFile}]

NoResponse == [status |-> 0, json |-> FALSE, file |-> NoFile]

\* StatusCode::is_success
is_success(status) == status >= 200 /\ status <= 299

get_wrapped(file, party_id) ==
    CASE party_id % 3 = 0 -> Some(file.iris_share_0)
      [] party_id % 3 = 1 -> Some(file.iris_share_1)
      [] OTHER -> Some(file.iris_share_2)

\* SharesS3Object::get
get(file, party_id) ==
    CASE party_id = 0 -> Some(file.iris_share_0)
      [] party_id = 1 -> Some(file.iris_share_1)
      [] party_id = 2 -> Some(file.iris_share_2)
      [] OTHER -> None

\* Result<String, SharesDecodingError>; ResponseContent carries the status
FetOk(value) == [ok |-> TRUE, val |-> value, status |-> 0]
FetErr(e) == [ok |-> FALSE, val |-> e, status |-> 0]
ResponseContent(status) ==
    [ok |-> FALSE, val |-> "ResponseContent", status |-> status]
NoFetResult == [ok |-> FALSE, val |-> "none", status |-> 0]

\* lines 138-164: what the function makes of the response
from_response(response, party_id) ==
    IF is_success(response.status)
    THEN IF response.json
         THEN LET value == get(response.file, party_id)
              IN  IF value.some THEN FetOk(value.v)
                  ELSE FetErr("SecretStringNotFound")
         ELSE FetErr("RequestError")
    ELSE ResponseContent(response.status)

InitFetch ==
    /\ fet_party \in PartyIdArgs
    /\ fet_pc = "retry"
    /\ fet_attempts = 0
    /\ fet_strategy = RETRIES
    /\ fet_response = NoResponse
    /\ fet_result = NoFetResult

\* the action of Retry::spawn is run: the GET is sent (lines 130-133)
FetSend ==
    /\ fet_pc = "retry"
    /\ fet_attempts' = fet_attempts + 1
    /\ fet_pc' = "sending"
    /\ UNCHANGED <<fet_party, fet_strategy, fet_response, fet_result, notFet>>

\* send() returns Ok(response), whatever the status: Retry::spawn returns it
FetSendOk ==
    /\ fet_pc = "sending"
    /\ \E response \in Responses : fet_response' = response
    /\ fet_pc' = "response"
    /\ UNCHANGED <<fet_party, fet_attempts, fet_strategy, fet_result, notFet>>

\* send() returns Err: Retry::spawn takes the next delay of the strategy,
\* and returns the error when there is none (line 135 hands it on)
FetSendErr ==
    /\ fet_pc = "sending"
    /\ IF fet_strategy > 0
       THEN /\ fet_strategy' = fet_strategy - 1
            /\ fet_pc' = "sleeping"
            /\ UNCHANGED fet_result
       ELSE /\ fet_result' = FetErr("RequestError")
            /\ fet_pc' = "done"
            /\ UNCHANGED fet_strategy
    /\ UNCHANGED <<fet_party, fet_attempts, fet_response, notFet>>

\* the delay has passed
FetSleep ==
    /\ fet_pc = "sleeping"
    /\ fet_pc' = "retry"
    /\ UNCHANGED <<fet_party, fet_attempts, fet_strategy, fet_response,
                   fet_result, notFet>>

\* lines 138-164
FetRespond ==
    /\ fet_pc = "response"
    /\ fet_result' = from_response(fet_response, fet_party)
    /\ fet_pc' = "done"
    /\ UNCHANGED <<fet_party, fet_attempts, fet_strategy, fet_response, notFet>>

---------------------------------------------------------------------------
(* The specifications.  Each runs one component; the others stay off.      *)

OffSer ==
    /\ ser_in = <<>>
    /\ ser_out = <<>>
    /\ ser_all = NoResult
    /\ ser_pc = "off"

OffSync ==
    /\ sync_state = [p \in Parties |-> late_state]
    /\ sync_pc = [p \in Parties |-> "off"]
    /\ state_dev = [p \in Parties |-> <<>>]
    /\ all_states_dev = [p \in Parties |-> <<>>]
    /\ sync_result = [p \in Parties |-> NoResult]

OffWire ==
    /\ nv_value = NetworkValue("RingElementBit", <<<<0>>>>)
    /\ nv_wire = NoResult
    /\ nv_kind = "none"
    /\ nv_result = NoResult
    /\ nv_pc = "off"

OffShare ==
    /\ sh_value = 0
    /\ sh_a = 0
    /\ sh_b = 0
    /\ sh_out = [id \in PartyIds |-> Err("off")]

OffMsb ==
    /\ msb_c = 0
    /\ msb_m = 0
    /\ msb_out = Err("off")

OffThr ==
    /\ thr_seed = 0
    /\ n_devices = 0
    /\ thr_pc = [p \in PartyIds |-> "off"]
    /\ code_gpu = [p \in PartyIds |-> <<>>]
    /\ mask_gpu = [p \in PartyIds |-> <<>>]
    /\ real_result = [p \in PartyIds |-> <<>>]
    /\ result_buf = [p \in PartyIds |-> <<>>]
    /\ open_out = [p \in PartyIds |-> <<>>]
    /\ correct = [p \in PartyIds |-> FALSE]
    /\ words_per_gpu = 0
    /\ thr_iter = [p \in PartyIds |-> 0]
    /\ open_count = [p \in PartyIds |-> 0]
    /\ buf_taken = [p \in PartyIds |-> FALSE]
    /\ thr_rnd = 0
    /\ first_out = [p \in PartyIds |-> <<>>]

OffCli ==
    /\ cli_random = FALSE
    /\ cli_pc = [t \in Tasks |-> "off"]
    /\ cli_holder = [m \in Mutexes |-> "none"]
    /\ cli_query = 0
    /\ cli_template = NoCode
    /\ cli_expected = EmptyMap
    /\ cli_requests = EmptyMap
    /\ cli_responses = EmptyMap
    /\ cli_queue = [id \in {StaleId} \cup RequestIds |-> 0]
    /\ cli_msg = StaleId
    /\ cli_polls = 0

OffEv ==
    /\ ev_ndev = 0
    /\ ev_stream = [s \in Streams |-> <<>>]
    /\ ev_running = [s \in Streams |-> Idle]
    /\ ev_gen = [i \in EvDevices |-> 0]
    /\ ev_fired = [i \in EvDevices |-> 0]
    /\ ev_awaited = [i \in EvDevices |-> 0]
    /\ ev_calls = MaxHostCalls
    /\ ev_work = <<>>
    /\ ev_started = {}
    /\ ev_completed = {}
    /\ ev_uses = {}

OffGrp ==
    /\ grp_ndev = 0
    /\ grp_pc = [p \in PartyIds |-> "off"]
    /\ grp_idx = [p \in PartyIds |-> 1]
    /\ grp_log = [p \in PartyIds |-> <<>>]
    /\ grp_queued = [p \in PartyIds |-> {}]
    /\ grp_launched = [p \in PartyIds |-> {}]
    /\ grp_sent = [p \in PartyIds |-> {}]
    /\ grp_recv = [p \in PartyIds |-> <<>>]
    /\ grp_host = [p \in PartyIds |-> <<>>]

OffDec ==
    /\ dec_share = NoShareString
    /\ dec_keys = [current_key_pair |-> 1, previous_key_pair |-> None]
    /\ dec_pc = "off"
    /\ dec_tried = <<>>
    /\ dec_bytes = NoBytes
    /\ dec_result = NoResult

OffFet ==
    /\ fet_party = 0
    /\ fet_pc = "off"
    /\ fet_attempts = 0
    /\ fet_strategy = 0
    /\ fet_response = NoResponse
    /\ fet_result = NoFetResult

\* the request helpers, not called
OffReq == OffDec /\ OffFet

\* the client, the device manager's streams, the call-by-call open and the
\* request helpers, not run
OffExt == OffCli /\ OffEv /\ OffGrp /\ OffReq

\* the components that no integer arithmetic of the test runs in
OffBuild == overflow_checks = FALSE

InitSpecSer == InitSer /\ OffSync /\ OffWire /\ OffBuild /\ OffShare /\ OffMsb /\ OffThr
    /\ OffExt

NextSer == Serialize \/ DeserializeAll

SpecSer == InitSpecSer /\ [][NextSer]_vars

InitSpecSync == InitSync /\ OffSer /\ OffWire /\ OffBuild /\ OffShare /\ OffMsb /\ OffThr
    /\ OffExt

NextSync ==
    \E p \in Parties : SyncSerialize(p) \/ SyncGather(p) \/ SyncGatherFail(p)

SpecSync == InitSpecSync /\ [][NextSync]_vars

\* The sync round under the scheduling the code gives: a party that has
\* called sync serializes, and a collective every rank has joined completes.
\* Nothing makes the collective report an error.  The parties start from
\* states without deleted ids, or from the one serialize rejects.
SyncLiveSample ==
    {st \in SyncSample : st.deleted_request_ids = <<>>
                            \/ Len(st.deleted_request_ids) > MAX_REQUESTS}

InitSpecSyncLive ==
    InitSpecSync /\ sync_state \in [Parties -> SyncLiveSample]

SpecSyncLive ==
    /\ InitSpecSyncLive
    /\ [][NextSync]_vars
    /\ \A p \in Parties : WF_vars(SyncSerialize(p)) /\ WF_vars(SyncGather(p))

InitSpecWire == InitWire /\ OffSer /\ OffSync /\ OffBuild /\ OffShare /\ OffMsb /\ OffThr
    /\ OffExt

NextWire == ToNetwork \/ Truncate \/ CorruptTag \/ TransportError \/ FromNetwork

SpecWire == InitSpecWire /\ [][NextWire]_vars

InitSpecShare == InitShare /\ OffSer /\ OffSync /\ OffWire /\ OffMsb /\ OffThr
    /\ OffExt

NextShare == \E id \in PartyIds : RepShare(id)

SpecShare == InitSpecShare /\ [][NextShare]_vars

InitSpecMsb == InitMsb /\ OffSer /\ OffSync /\ OffWire /\ OffShare /\ OffThr
    /\ OffExt

NextMsb == RealResultMsb

SpecMsb == InitSpecMsb /\ [][NextMsb]_vars

InitSpecThreshold ==
    InitThreshold /\ OffSer /\ OffSync /\ OffWire /\ OffShare /\ OffMsb /\ OffExt

NextThreshold ==
    \/ \E p \in PartyIds : Setup(p) \/ OpenIssue(p) \/ OpenComplete(p)
                                \/ ReturnResultBuffer(p)
    \/ Compare

SpecThreshold == InitSpecThreshold /\ [][NextThreshold]_vars

\* the first iteration of test_threshold, up to the return of open
NextRound ==
    \/ \E p \in PartyIds : Setup(p) \/ OpenIssue(p) \/ OpenComplete(p)
    \/ Compare

SpecRound == InitSpecThreshold /\ [][NextRound]_vars

\* test_threshold on one batch laid out on 1..MaxDevices devices
InitSpecChunks ==
    InitChunks /\ OffSer /\ OffSync /\ OffWire /\ OffShare /\ OffMsb /\ OffExt

SpecChunks == InitSpecChunks /\ [][NextThreshold]_vars

\* test_threshold with callers that may open a result a second time
NextReopen ==
    \/ \E p \in PartyIds : Setup(p) \/ OpenIssue(p) \/ OpenComplete(p)
                                \/ ReturnResultBuffer(p) \/ OpenAgain(p)
    \/ Compare

SpecReopen == InitSpecThreshold /\ [][NextReopen]_vars

\* test_threshold with parties that may stop before open, under the
\* scheduling the code gives from the circuit on: every party's own steps
\* are taken when they can be, and an exchange both sides have issued
\* completes.  Nothing makes a pending exchange report an error.  (Setup and
\* Compare cannot be taken any more once a party is inside open next to a
\* stopped neighbour, so fairness of these two adds nothing.)
NextOpenLive ==
    \/ \E p \in PartyIds : Setup(p) \/ OpenIssue(p) \/ OpenComplete(p)
                                \/ ReturnResultBuffer(p)
                                \/ PeerStops(p) \/ OpenFails(p)
    \/ Compare

SpecOpenLive ==
    /\ InitSpecThreshold
    /\ [][NextOpenLive]_vars
    /\ \A p \in PartyIds :
          /\ WF_vars(OpenIssue(p))
          /\ WF_vars(OpenComplete(p))
          /\ WF_vars(ReturnResultBuffer(p))

\* the client: main's request loop and the receiving task, interleaved at
\* every await
InitSpecClient ==
    InitClient /\ OffSer /\ OffSync /\ OffWire /\ OffBuild /\ OffShare /\ OffMsb
        /\ OffThr /\ OffEv /\ OffGrp /\ OffReq

NextClient ==
    \/ MainBuild \/ MainChoose \/ MainNew \/ MainFromDb \/ MainFreshLock
    \/ MainFreshExpected \/ MainRequests \/ MainPublish \/ MainJoin
    \/ RecvPoll \/ RecvEnd \/ RecvLockExpected \/ RecvGetRequest
    \/ RecvInsertResponse \/ RecvDelete

SpecClient == InitSpecClient /\ [][NextClient]_vars

\* the streams of the devices, the host submitting work, recording events
\* on streamsA and making streamsB wait for them, in any order
InitSpecEvents ==
    InitEvents /\ OffSer /\ OffSync /\ OffWire /\ OffBuild /\ OffShare /\ OffMsb
        /\ OffThr /\ OffCli /\ OffGrp /\ OffReq

NextEvents ==
    \/ RecordEvent
    \/ AwaitEvent
    \/ \E s \in StreamPool : Submit(s) \/ StreamStart(s) \/ StreamComplete(s)
                              \/ StreamRecord(s) \/ StreamWait(s)

SpecEvents == InitSpecEvents /\ [][NextEvents]_vars

\* one open round of the three parties, call by call
InitSpecGroup ==
    InitGroup /\ OffSer /\ OffSync /\ OffWire /\ OffBuild /\ OffShare /\ OffMsb
        /\ OffThr /\ OffCli /\ OffEv /\ OffReq

NextGroup ==
    \/ \E p \in PartyIds : GroupStart(p) \/ SendView(p) \/ ReceiveView(p)
                                \/ GroupEnd(p) \/ Dtoh(p)
    \/ \E p \in PartyIds : \E d \in GrpDevicePool : Transfer(p, d)

SpecGroup == InitSpecGroup /\ [][NextGroup]_vars

\* one call of decrypt_iris_share, for every share and every set of key pairs
InitSpecDecrypt ==
    InitDecrypt /\ OffSer /\ OffSync /\ OffWire /\ OffBuild /\ OffShare /\ OffMsb
        /\ OffThr /\ OffCli /\ OffEv /\ OffGrp /\ OffFet

NextDecrypt == DecDecode \/ DecOpenCurrent \/ DecOpenPrevious \/ DecParse

SpecDecrypt == InitSpecDecrypt /\ [][NextDecrypt]_vars

\* one call of get_iris_data_by_party_id, for every party_id and whatever
\* the server does
InitSpecFetch ==
    InitFetch /\ OffSer /\ OffSync /\ OffWire /\ OffBuild /\ OffShare /\ OffMsb
        /\ OffThr /\ OffCli /\ OffEv /\ OffGrp /\ OffDec

NextFetch == FetSend \/ FetSendOk \/ FetSendErr \/ FetSleep \/ FetRespond

SpecFetch == InitSpecFetch /\ [][NextFetch]_vars

\* The call under the scheduling the code gives: the runtime runs the GET,
\* the delays pass and the response in hand is handled.  Nothing bounds the
\* time a send takes.
SpecFetchLive ==
    /\ InitSpecFetch
    /\ [][NextFetch]_vars
    /\ WF_vars(FetSend) /\ WF_vars(FetSleep) /\ WF_vars(FetRespond)

Init == InitSpecSync
Next == NextSync
Spec == Init /\ [][Next]_vars

---------------------------------------------------------------------------
(* Claims                                                                  *)

DbLensOf(states) == {states[q].db_len : q \in DOMAIN states}

\* C1: when the db_lens reported in a sync round are not all equal, every
\* party that completes the round gets the rollback target Some(min), min
\* being the least db_len over all parties' states, its own included.
C1_RollbackIsMin ==
    \A p \in Parties :
        (sync_pc[p] = "done" /\ Cardinality(DbLensOf(sync_state)) > 1)
            => /\ sync_result[p].ok
               /\ must_rollback_storage(sync_result[p].val)
                     = Some(Min(DbLensOf(sync_state)))

\* test_out_of_sync: party 0 at 123, the others late at 12; all get Some(12).
C1_Witness ==
    /\ sync_state = [p \in Parties |-> IF p = 0 THEN some_state ELSE late_state]
    /\ \A p \in Parties :
          /\ sync_pc[p] = "done"
          /\ must_rollback_storage(sync_result[p].val) = Some(12)

\* C2: when every party's db_len equals the caller's own, the caller's
\* SyncResult carries no rollback target.
C2_NoRollbackWhenEqual ==
    \A p \in Parties :
        (sync_pc[p] = "done"
           /\ \A q \in Parties : sync_state[q].db_len = sync_state[p].db_len)
            => /\ sync_result[p].ok
               /\ must_rollback_storage(sync_result[p].val) = None

\* test_sync: three identical states, every party done without a target.
C2_Witness ==
    /\ sync_state = [p \in Parties |-> some_state]
    /\ \A p \in Parties :
          /\ sync_pc[p] = "done"
          /\ must_rollback_storage(sync_result[p].val) = None

WithinLimits(state) ==
    /\ Len(state.deleted_request_ids) <= MAX_REQUESTS
    /\ \A i \in 1..Len(state.deleted_request_ids) :
          Len(state.deleted_request_ids[i]) <= MAX_REQUEST_ID_LEN

\* C7: serialize accepts every SyncState with at most MAX_REQUESTS ids of at
\* most MAX_REQUEST_ID_LEN bytes each and returns exactly SERIAL_SIZE bytes.
C7_FixedSize ==
    ser_pc \in {"serialized", "decoded"} =>
        \A i \in 1..Len(ser_in) :
            WithinLimits(ser_in[i]) =>
                ser_out[i].ok /\ Len(ser_out[i].val) = SERIAL_SIZE

\* Two states of different content, one of them full (test_serialize's) and
\* one with no ids, both serialized to SERIAL_SIZE bytes.
C7_Witness ==
    /\ ser_pc = "serialized"
    /\ \E i, j \in 1..Len(ser_in) :
          /\ ser_in[i].deleted_request_ids =
                [k \in 1..MAX_REQUESTS |-> Ident(MAX_REQUEST_ID_LEN)]
          /\ ser_in[j].deleted_request_ids = <<>>
          /\ ser_out[i].ok /\ Len(ser_out[i].val) = SERIAL_SIZE
          /\ ser_out[j].ok /\ Len(ser_out[j].val) = SERIAL_SIZE

\* C8: deserialize_all of the concatenated records of states that serialize
\* accepts returns exactly those states, in order.
C8_RoundTrip ==
    ser_pc = "decoded" => ser_all.ok /\ ser_all.val = ser_in

\* Two different records, the first padded, decoded back in order.
C8_Witness ==
    /\ ser_pc = "decoded"
    /\ Len(ser_in) >= 2
    /\ ser_in[1] # ser_in[2]
    /\ Len(BincodeSyncState(ser_in[1])) < SERIAL_SIZE
    /\ ser_all.ok /\ ser_all.val = ser_in

\* C9: from_network(Ok(x.to_network())) returns Ok(x) for every value x of
\* every variant, vectors of length 0, 1 and more included.
C9_WireRoundTrip ==
    (nv_pc = "received" /\ nv_kind = "valid") =>
        /\ nv_result.ok
        /\ nv_result.val.variant = nv_value.variant
        /\ nv_result.val.data = nv_value.data

\* A vector of the largest sampled length, decoded back.
C9_Witness ==
    /\ nv_pc = "received" /\ nv_kind = "valid"
    /\ nv_value.variant = "VecRing64"
    /\ Len(nv_value.data) = MaxVecLen
    /\ nv_result = Ok(nv_value)

\* C10: from_network never panics, and returns an error for a strict prefix
\* of a valid encoding, for a tag that names no variant and for an Err input.
C10_DecodeErrors ==
    /\ nv_result # Panic
    /\ (nv_pc = "received" /\ nv_kind \in {"truncated", "badtag", "err"})
          => IsErr(nv_result)

\* A vector cut inside its last element, rejected with an error.
C10_Witness ==
    /\ nv_pc = "received" /\ nv_kind = "truncated"
    /\ nv_value.variant = "VecRing16"
    /\ Len(nv_value.data) = MaxVecLen
    /\ Len(nv_wire.val) = Len(to_network(nv_value)) - 1
    /\ IsErr(nv_result)

\* the signed value of a u16 read as two's complement
Signed16(x) == IF x >= TwoTo16 \div 2 THEN x - TwoTo16 ELSE x

\* c / m < rho, for m > 0 and c signed
IsMatch(c, m) == Signed16(c) * RATIO_DEN < RATIO_NUM * m

\* C5 as stated: for m > 0 the most significant bit of r is 1 exactly when
\* the pair is not a match, a match being c / m < rho.
C5_MsbIsNotMatch ==
    (msb_out.ok /\ msb_m > 0) => (msb_out.val = 1 <=> ~IsMatch(msb_c, msb_m))

\* C5 as amended: for c in the sampled signed range and m > 0,
\* real_result_msb's bit is 1 exactly when c * B > m * A, that is when
\* c / m > A / B.  Where the build checks for overflow, the u64 subtraction
\* fails instead whenever m * A < (c as u64) << B_BITS, which covers every
\* pair whose bit would have been 1.
C5_MsbIsSignOfDifference ==
    ((msb_out.ok \/ msb_out = Panic) /\ msb_m > 0) =>
        IF overflow_checks /\ (msb_m * A) \div B < msb_c
        THEN msb_out = Panic
        ELSE /\ msb_out.ok
             /\ msb_out.val = 1 <=> (Signed16(msb_c) * B > msb_m * A)

\* Just above the boundary c / m = A / B the bit is 1, though c / m is
\* below rho.
C5_Witness ==
    /\ msb_c = 3201 /\ msb_m = 12800
    /\ msb_out.ok /\ msb_out.val = 1
    /\ IsMatch(msb_c, msb_m)

\* the three shares, read from what rep_share gave the three parties
ShareA == sh_out[0].val[1]
ShareB == sh_out[1].val[1]
ShareC == sh_out[2].val[1]

\* C6: once rep_share has run for the three parties, none of the calls has
\* failed on an overflow and the shares a, b, c add up to the value modulo
\* 2^16.
C6_SharesSumToValue ==
    (\A id \in PartyIds : sh_out[id] # NoResult) =>
        /\ \A id \in PartyIds : sh_out[id].ok
        /\ (ShareA + ShareB + ShareC) % TwoTo16 = sh_value

\* C11: a party holds a SyncResult only when every party of the round has
\* posted its serialized state to the all_gather, and the result then holds
\* the state of every party, in rank order.
C11_SyncIsBarrier ==
    \A p \in Parties :
        sync_result[p].ok =>
            /\ \A q \in Parties : state_dev[q] = serialize(sync_state[q]).val
            /\ sync_result[p].val.all_states = [k \in 1..WORLD_SIZE |-> sync_state[k - 1]]

\* One party has its result while the two others are still inside the
\* collective.
C11_Witness ==
    /\ sync_pc[0] = "done" /\ sync_result[0].ok
    /\ sync_pc[1] = "gather" /\ sync_pc[2] = "gather"

\* a party whose sync call ended in serialize, before the collective
NeverContributes(q) == sync_pc[q] = "failed" /\ state_dev[q] = <<>>

\* C13: when a party of the round never contributes to the all_gather, every
\* party waiting in the collective eventually gets an error.
C13_HungPeerIsAnError ==
    \A p \in Parties :
        (sync_pc[p] = "gather" /\ \E q \in Parties : NeverContributes(q))
            ~> (sync_pc[p] = "failed" /\ ~sync_result[p].ok)

\* whether the states of the round disagree on db_len
Diverged == Cardinality(DbLensOf(sync_state)) > 1

\* C17: no step of sync changes a caller's SyncState, and a SyncResult sync
\* returns carries the caller's own state as it was passed in; when the
\* round diverged, the result carries a rollback target for the caller.
C17_SyncOnlyReports ==
    [][/\ sync_state' = sync_state
       /\ \A p \in Parties :
             sync_result'[p].ok =>
                /\ sync_result'[p].val.my_state = sync_state[p]
                /\ Diverged => must_rollback_storage(sync_result'[p].val) # None]_vars

\* Party 1, late with no deleted ids, is told to roll back and still holds
\* its own state while the others hold theirs.
C17_Witness ==
    /\ sync_state = [p \in Parties |-> IF p = 1 THEN late_state ELSE some_state]
    /\ sync_pc[1] = "done"
    /\ sync_result[1].val.my_state = late_state
    /\ must_rollback_storage(sync_result[1].val) = Some(12)

\* whether two parties of the round report different deleted ids
IdsDiffer ==
    \E p, q \in Parties :
        sync_state[p].deleted_request_ids # sync_state[q].deleted_request_ids

\* C18: in a round whose states agree on db_len and differ in their deleted
\* ids, every SyncResult has no rollback target.
C18_DeletedIdsDoNotDriveRollback ==
    \A p \in Parties :
        (sync_pc[p] = "done" /\ ~Diverged /\ IdsDiffer)
            => must_rollback_storage(sync_result[p].val) = None

\* Three parties at db_len 123, one with other deleted ids, all done.
C18_Witness ==
    /\ sync_state = [p \in Parties |->
                        IF p = 2 THEN SyncState(123, <<def>>) ELSE some_state]
    /\ \A p \in Parties :
          /\ sync_pc[p] = "done"
          /\ must_rollback_storage(sync_result[p].val) = None

\* C20: a party whose all_gather fails ends its sync call with the error
\* and no SyncResult, and an ended call does nothing more: no second
\* collective, no change of its result.
C20_GatherFailureFailsRound ==
    [][\A p \in Parties :
          /\ (sync_pc[p] = "gather" /\ sync_result'[p] = Err("NcclError"))
                => sync_pc'[p] = "failed"
          /\ sync_pc[p] = "failed"
                => /\ sync_pc'[p] = "failed"
                   /\ sync_result'[p] = sync_result[p]
                   /\ ~sync_result'[p].ok
                   /\ state_dev'[p] = state_dev[p]
                   /\ all_states_dev'[p] = all_states_dev[p]]_vars

\* One party's collective failed; the two others completed the round.
C20_Witness ==
    /\ sync_pc[0] = "failed" /\ sync_result[0] = Err("NcclError")
    /\ sync_pc[1] = "done" /\ sync_pc[2] = "done"

\* the secret bits of device d, packed: the xor of the three distinct shares
SecretWords(d) ==
    XorWords(get_offset(result_buf[0][d].a, 0),
             XorWords(get_offset(result_buf[1][d].a, 0),
                      get_offset(result_buf[2][d].a, 0)))

\* C3: what a party's open returns is, word by word and device after
\* device, the xor of the three distinct shares of the result bits, and the
\* parties that have finished their open hold the same vector.
C3_OpenReconstructs ==
    \A p \in PartyIds :
        thr_pc[p] = "done" =>
            /\ open_out[p] = Concat([d \in 1..n_devices |-> SecretWords(d)])
            /\ \A q \in PartyIds : thr_pc[q] = "done" => open_out[q] = open_out[p]

\* The three parties have opened a batch on two devices whose bits are not
\* all equal.
C3_Witness ==
    /\ \A p \in PartyIds : thr_pc[p] = "done"
    /\ n_devices = MaxDevices
    /\ Len(open_out[0]) = n_devices * CHUNK_SIZE
    /\ \E i, j \in 1..WORD_BITS : open_out[0][1][i] # open_out[0][1][j]
    /\ open_out[1] = open_out[0] /\ open_out[2] = open_out[0]

\* C4: the vector a party opens after the comparison circuit is the
\* reference real_result_msb computes from the plaintext dot-products.
C4_OpenMatchesReference ==
    \A p \in PartyIds :
        /\ thr_pc[p] = "done" => open_out[p] = real_result[p]
        /\ thr_iter[p] > 0 => correct[p]

\* A party has opened a batch holding both outcomes and found it correct.
C4_Witness ==
    \E p \in PartyIds :
        /\ thr_pc[p] = "done" /\ thr_iter[p] > 0 /\ correct[p]
        /\ Len(real_result[p]) = n_devices * CHUNK_SIZE
        /\ \E i, j \in 1..WORD_BITS :
              real_result[p][1][i] = 1 /\ real_result[p][1][j] = 0

\* C19: a party's result buffer is out of its Circuits only between its
\* take_result_buffer and its return_result_buffer; every run of the
\* circuit starts with the buffers of all parties given back, and after its
\* last iteration a party holds no buffer.
C19_BufferReturnedBeforeNextCompare ==
    /\ \A p \in PartyIds :
          buf_taken[p] <=> thr_pc[p] \in {"compared", "opening", "done"}
    /\ (\A p \in PartyIds : thr_pc[p] = "ready")
          => \A p \in PartyIds : ~buf_taken[p]

\* The second batch has taken the buffers the first batch gave back.
C19_Witness ==
    \A p \in PartyIds :
        thr_iter[p] = 1 /\ thr_pc[p] = "compared" /\ buf_taken[p]

\* C15: a second open of the same result returns what the first returned,
\* and a step that completes an open leaves the result shares at offset 0,
\* a and b, as they were: only a at offset 1 takes the received share.
C15_OpenTwiceSameResult ==
    /\ [](\A p \in PartyIds :
            (thr_pc[p] = "done" /\ first_out[p] # <<>>)
                => open_out[p] = first_out[p])
    /\ [][\A p \in PartyIds :
            (thr_pc[p] = "opening" /\ thr_pc'[p] = "done") =>
                \A d \in 1..Len(result_buf[p]) :
                    /\ get_offset(result_buf'[p][d].a, 0)
                          = get_offset(result_buf[p][d].a, 0)
                    /\ result_buf'[p][d].b = result_buf[p][d].b]_vars

\* The three parties have each opened the same result twice, on two
\* devices, and the received share differs from the party's own.
C15_Witness ==
    /\ n_devices = MaxDevices
    /\ \A p \in PartyIds :
          /\ thr_pc[p] = "done" /\ open_count[p] = 2 /\ thr_iter[p] = 0
          /\ first_out[p] = open_out[p]
          /\ Len(first_out[p]) = n_devices * CHUNK_SIZE
    /\ get_offset(result_buf[0][1].a, 1) # get_offset(result_buf[0][1].a, 0)

\* a neighbour of p will never take its side of p's exchange
NeighbourStopped(p) ==
    thr_pc[prev_id(p)] = "stopped" \/ thr_pc[next_id(p)] = "stopped"

\* C12: a party inside open whose neighbour never sends, or never receives,
\* eventually leaves open with a hard error.
C12_OpenNeverHangs ==
    \A p \in PartyIds :
        (thr_pc[p] = "opening" /\ NeighbourStopped(p)) ~> (thr_pc[p] = "panicked")

\* the match bits of the whole batch, from the plaintext dot-products, 64
\* to a word, with no reference to devices or chunks
BatchBits ==
    [i \in 1..(BatchWords * WORD_BITS) |->
        ThresholdMsb(sample_code_dot(DrawCodeMag(thr_seed, i),
                                     DrawCodeNeg(thr_seed, i), FALSE).val,
                     DrawMask(thr_seed, i))]

BatchResult ==
    [w \in 1..BatchWords |->
        PackWord(SubSeq(BatchBits, (w - 1) * WORD_BITS + 1, w * WORD_BITS))]

PairBit(words, j) ==
    words[((j - 1) \div WORD_BITS) + 1][((j - 1) % WORD_BITS) + 1]

\* what party p holds of the pairs of device d once its open is complete:
\* its two shares and the share it received, as packed words
Transcript(bufs, p, d) ==
    <<get_offset(bufs[p][d].a, 0), get_offset(bufs[p][d].b, 0),
      get_offset(bufs[p][d].a, 1)>>

\* a transcript's part for pair j
OfPair(t, j) == [s \in 1..3 |-> PairBit(t[s], j)]

\* a transcript's part for the pairs other than k
WithoutPair(t, k) ==
    [s \in 1..3 |->
        [w \in 1..Len(t[s]) |->
            [i \in 1..WORD_BITS |->
                IF (w - 1) * WORD_BITS + i = k THEN 0 ELSE t[s][w][i]]]]

\* The buffers of the three parties after the circuit and the open round of
\* the execution that differs from this one only in the bit of pair k of
\* device d: same inputs elsewhere, same randomness.
FlippedRun(d, k) ==
    LET bits == [CircuitBits(code_gpu, mask_gpu, d) EXCEPT ![k] = 1 - @]
        res  == [p \in PartyIds |->
                    [a |-> CircuitWords(bits, p, thr_rnd) \o Scratch(thr_rnd),
                     b |-> CircuitWords(bits, prev_id(p), thr_rnd)
                              \o Scratch(thr_rnd)]]
    IN  [p \in PartyIds |->
            [e \in {d} |-> open_receive(res[p], open_send_view(res[prev_id(p)]))]]

\* the pairs of a device whose bit is flipped
FlipSample == {1, 2, WORD_BITS, INPUTS_PER_GPU_SIZE}

\* C16: for a party that has completed its open, its transcript of pair j
\* is the same in the execution that differs only in the bit of another
\* pair k of the device; and the two shares a party holds of a pair after
\* the circuit are also the shares it would hold, under some randomness of
\* the circuit, had the pair's bit been the other one.
C16_TranscriptHidesOtherPairs ==
    \A p \in PartyIds :
        /\ thr_pc[p] = "done" =>
              \A d \in 1..n_devices : \A k \in FlipSample :
                  WithoutPair(Transcript(result_buf, p, d), k)
                      = WithoutPair(Transcript(FlippedRun(d, k), p, d), k)
        /\ thr_pc[p] \in {"compared", "opening", "done"} =>
              \A d \in 1..n_devices : \A j \in FlipSample :
                  LET bit == CircuitBits(code_gpu, mask_gpu, d)[j]
                  IN  \E rnd \in ResultRand :
                          /\ XorShare(p, 1 - bit, rnd, j)
                                = PairBit(get_offset(result_buf[p][d].a, 0), j)
                          /\ XorShare(prev_id(p), 1 - bit, rnd, j)
                                = PairBit(get_offset(result_buf[p][d].b, 0), j)

\* Party 1 has completed its open on two devices; the share it received of
\* pair 2 changes with the bit of pair 2, its transcript of pair 1 does not.
C16_Witness ==
    /\ n_devices = MaxDevices
    /\ thr_pc[1] = "done"
    /\ OfPair(Transcript(result_buf, 1, 1), 2)
          # OfPair(Transcript(FlippedRun(1, 2), 1, 1), 2)
    /\ OfPair(Transcript(result_buf, 1, 1), 1)
          = OfPair(Transcript(FlippedRun(1, 2), 1, 1), 1)

\* C21: every state that serialize accepts (and sync therefore puts on the
\* wire) has at most MAX_REQUESTS deleted-request identifiers, each of at
\* most MAX_REQUEST_ID_LEN bytes; a state over either limit is rejected.
C21_LimitsEnforced ==
    ser_pc \in {"serialized", "decoded"} =>
        \A i \in 1..Len(ser_in) :
            ser_out[i].ok => WithinLimits(ser_in[i])

\* the word of device d at place w of the chunk that a party's three
\* buffers of the device xor to
OpenedWord(p, d, w) ==
    XorWord(result_buf[p][d].a[w],
            XorWord(result_buf[p][d].b[w], result_buf[p][d].a[CHUNK_SIZE + w]))

\* C22: the vector open returns has n_devices * CHUNK_SIZE words, and its
\* words (d-1)*CHUNK_SIZE+1 .. d*CHUNK_SIZE (0-based: [d*CHUNK_SIZE,
\* (d+1)*CHUNK_SIZE) for device index d-1) are the opened words of device
\* d, in the order of the chunk.
C22_OpenInDeviceOrder ==
    \A p \in PartyIds :
        thr_pc[p] = "done" =>
            /\ Len(open_out[p]) = n_devices * CHUNK_SIZE
            /\ \A d \in 1..n_devices : \A w \in 1..CHUNK_SIZE :
                  open_out[p][(d - 1) * CHUNK_SIZE + w] = OpenedWord(p, d, w)

\* A party has opened on two devices whose opened chunks differ, so the
\* order of the devices shows in the result.
C22_Witness ==
    /\ n_devices = MaxDevices /\ n_devices > 1 /\ CHUNK_SIZE >= 1
    /\ thr_pc[0] = "done"
    /\ Len(open_out[0]) = n_devices * CHUNK_SIZE
    /\ open_out[0][1] # open_out[0][CHUNK_SIZE + 1]
    /\ open_out[0][1] = OpenedWord(0, 1, 1)

\* the vector of states sync decodes from what a party gathered and passes
\* to SyncResult::new
PassedStates(p) == deserialize_all(all_states_dev[p])

\* C23 as stated: the states held by the SyncResult sync returns are the
\* states of the other parties only, world_size - 1 of them.
C23_OnlyPeerStates ==
    \A p \in Parties :
        sync_result[p].ok =>
            /\ Len(sync_result[p].val.all_states) = WORLD_SIZE - 1
            /\ \A q \in Parties \ {p} :
                  \E i \in 1..Len(sync_result[p].val.all_states) :
                      sync_result[p].val.all_states[i] = sync_state[q]

\* C23: the states held by the SyncResult sync returns are the world_size
\* states sync decoded from the gathered buffer, one per rank in rank order,
\* the caller's own state at its own rank included; the result holds the
\* caller's state a second time as its own state.
C23_AllRanksInResult ==
    \A p \in Parties :
        sync_result[p].ok =>
            /\ PassedStates(p).ok
            /\ Len(PassedStates(p).val) = WORLD_SIZE
            /\ PassedStates(p).val[p + 1] = sync_state[p]
            /\ sync_result[p].val.all_states = PassedStates(p).val
            /\ sync_result[p].val.my_state = sync_state[p]

\* Party 1 has its result in a round of three different states: three
\* entries, its own the second.
C23_Witness ==
    /\ sync_result[1].ok
    /\ sync_state[0] # sync_state[1] /\ sync_state[1] # sync_state[2]
    /\ sync_state[0] # sync_state[2]
    /\ Len(sync_result[1].val.all_states) = WORLD_SIZE
    /\ sync_result[1].val.all_states[2] = sync_state[1]

\* share_i: the first component of party i's pair
ShareOf(i) == sh_out[i].val[1]

\* the components of a party's pair
PairOf(i) == {sh_out[i].val[1], sh_out[i].val[2]}

\* the draws under which rep_share gives party id the pair it holds now when
\* the value shared is v: the share the party does not hold moves with v
DrawsFor(id, v) ==
    LET x    == sh_out[id].val[1]
        y    == sh_out[id].val[2]
        miss == Sub16(Sub16(v, x, FALSE).val, y, FALSE).val
    IN  CASE id = 0 -> [a |-> x, b |-> miss]
          [] id = 1 -> [a |-> y, b |-> x]
          [] id = 2 -> [a |-> miss, b |-> y]

\* C24 as stated: party i's pair is (share_i, share_{(i+1) mod 3}).
C24_PairIsOwnAndNext ==
    (\A id \in PartyIds : sh_out[id].ok) =>
        \A i \in PartyIds :
            sh_out[i].val = <<ShareOf(i), ShareOf((i + 1) % 3)>>

\* C24: when rep_share has returned for the three parties, party i's pair
\* is (share_i, share_{(i+2) mod 3}), the share of the previous party; the
\* pairs of any two parties hold the three shares and add up to the value,
\* and the pair of one party is also the pair it would hold of any other
\* value, so it lacks the third share.
C24_PairIsOwnAndPrevious ==
    (\A id \in PartyIds : sh_out[id].ok) =>
        /\ \A i \in PartyIds :
              sh_out[i].val = <<ShareOf(i), ShareOf((i + 2) % 3)>>
        /\ \A i, j \in PartyIds :
              i # j =>
                 /\ \A k \in PartyIds : ShareOf(k) \in PairOf(i) \cup PairOf(j)
                 /\ LET third == IF j = (i + 2) % 3
                                 THEN sh_out[j].val[2] ELSE sh_out[j].val[1]
                    IN  (sh_out[i].val[1] + sh_out[i].val[2] + third) % TwoTo16
                           = sh_value
        /\ \A i \in PartyIds : \A v \in U16Sample :
              rep_share(v, i, DrawsFor(i, v).a, DrawsFor(i, v).b, FALSE)
                 = Ok(sh_out[i].val)

\* The three calls have returned with three different shares of a value
\* that is not zero.
C24_Witness ==
    /\ \A id \in PartyIds : sh_out[id].ok
    /\ sh_value # 0
    /\ ShareOf(0) # ShareOf(1) /\ ShareOf(1) # ShareOf(2)
    /\ ShareOf(0) # ShareOf(2)
    /\ sh_out[0].val = <<ShareOf(0), ShareOf(2)>>

\* the byte offset, from 0, of the bytes of the k-th identifier in the
\* record of a state: behind db_len, the count, the earlier identifiers with
\* their length fields, and its own length field
RECURSIVE IdOffset(_, _)
IdOffset(state, k) ==
    IF k = 1 THEN 3 * USIZE
    ELSE IdOffset(state, k - 1) + Len(state.deleted_request_ids[k - 1]) + USIZE

\* whether the bytes of the k-th identifier of the state stand at offset off
\* of the record
IdentifierAt(rec, state, k, off) ==
    SubSeq(rec, off + 1, off + Len(state.deleted_request_ids[k]))
        = state.deleted_request_ids[k]

\* C25 as stated: the k-th identifier stands at the same byte offset in the
\* record of every state that has one.
C25_FixedSlots ==
    ser_pc \in {"serialized", "decoded"} =>
        \A i, j \in 1..Len(ser_in) :
            (ser_out[i].ok /\ ser_out[j].ok) =>
                \A k \in 1..Min({Len(ser_in[i].deleted_request_ids),
                                 Len(ser_in[j].deleted_request_ids)}) :
                    /\ IdentifierAt(ser_out[i].val, ser_in[i], k,
                                    IdOffset(ser_in[j], k))
                    /\ Len(ser_out[i].val)
                          >= IdOffset(ser_in[j], k)
                               + Len(ser_in[i].deleted_request_ids[k])

\* C25: the record serialize returns is the 8-byte little-endian db_len, the
\* 8-byte little-endian number of identifiers, then every identifier as its
\* 8-byte little-endian length and its bytes, one directly behind the other,
\* then zero bytes up to SERIAL_SIZE; the k-th identifier starts behind the
\* earlier ones, at an offset that depends on their lengths.
C25_PackedThenPadded ==
    ser_pc \in {"serialized", "decoded"} =>
        \A i \in 1..Len(ser_in) :
            ser_out[i].ok =>
                LET rec == ser_out[i].val
                    ids == ser_in[i].deleted_request_ids
                    n   == Len(ids)
                    end == IF n = 0 THEN 2 * USIZE
                           ELSE IdOffset(ser_in[i], n) + Len(ids[n])
                IN  /\ SubSeq(rec, 1, USIZE) = LE(ser_in[i].db_len, USIZE)
                    /\ SubSeq(rec, USIZE + 1, 2 * USIZE) = LE(n, USIZE)
                    /\ \A k \in 1..n :
                          /\ SubSeq(rec, IdOffset(ser_in[i], k) - USIZE + 1,
                                    IdOffset(ser_in[i], k))
                                = LE(Len(ids[k]), USIZE)
                          /\ IdentifierAt(rec, ser_in[i], k,
                                          IdOffset(ser_in[i], k))
                    /\ Len(rec) = SERIAL_SIZE
                    /\ \A b \in (end + 1)..SERIAL_SIZE : rec[b] = 0

\* Two accepted states whose second identifiers are the same but start at
\* different offsets, the first identifier of one being empty.
C25_Witness ==
    /\ ser_pc = "serialized"
    /\ Len(ser_in) = 2
    /\ ser_out[1].ok /\ ser_out[2].ok
    /\ Len(ser_in[1].deleted_request_ids) = 2
    /\ Len(ser_in[2].deleted_request_ids) = 2
    /\ ser_in[1].deleted_request_ids[1] = <<>>
    /\ ser_in[2].deleted_request_ids[1] # <<>>
    /\ ser_in[1].deleted_request_ids[2] = ser_in[2].deleted_request_ids[2]
    /\ IdOffset(ser_in[1], 2) < IdOffset(ser_in[2], 2)
    /\ IdentifierAt(ser_out[2].val, ser_in[2], 2, IdOffset(ser_in[2], 2))

\* C27: the parties of one sync round that hold a SyncResult all hold the
\* same rollback decision: None for all, or Some(t) with one t for all.
C27_SameRollbackDecision ==
    \A p, q \in Parties :
        (sync_result[p].ok /\ sync_result[q].ok) =>
            must_rollback_storage(sync_result[p].val)
                = must_rollback_storage(sync_result[q].val)

\* A round of three different database lengths, the smallest at the last
\* rank: the three parties are done with the same target.
C27_Witness ==
    /\ sync_state[0].db_len = 300 /\ sync_state[1].db_len = 123
    /\ sync_state[2].db_len = 12
    /\ \A p \in Parties :
          /\ sync_pc[p] = "done" /\ sync_result[p].ok
          /\ must_rollback_storage(sync_result[p].val) = Some(12)

\* the exact integer m * A - c * B of the pair, c read as a signed 16-bit
\* value
ExactDifference == msb_m * A - Signed16(msb_c) * B

\* C29: for c in [-IRIS_CODE_SIZE, IRIS_CODE_SIZE] and m in
\* [0, IRIS_CODE_SIZE], m * A - c * B lies strictly between -2^(15+B_BITS)
\* and 2^(15+B_BITS) (stated on the quotient by B, which lies in
\* (-2^15, 2^15)), and real_result_msb's bit of the pair is the sign of that
\* integer: the computation of r returns, 1 for a negative difference and 0
\* otherwise.
C29_MsbIsSignOfExactDifference ==
    (msb_out # NoResult
       /\ Signed16(msb_c) \in (-IRIS_CODE_SIZE)..IRIS_CODE_SIZE
       /\ msb_m \in 0..IRIS_CODE_SIZE) =>
        /\ ExactDifference \div B > -(TwoTo16 \div 2)
        /\ ExactDifference \div B < TwoTo16 \div 2
        /\ msb_out.ok
        /\ msb_out.val = 1 <=> ExactDifference < 0

\* the mutex a task is waiting for, or about to lock, where it stands
WaitsFor(t) ==
    CASE t = "main" /\ cli_pc[t] \in {"len", "fresh"} -> "responses"
      [] t = "main" /\ cli_pc[t] \in {"new", "from_db", "fresh_expected"}
            -> "expected_results"
      [] t = "main" /\ cli_pc[t] = "requests" -> "requests"
      [] t = "recv" /\ cli_pc[t] = "lock_expected" -> "expected_results"
      [] t = "recv" /\ cli_pc[t] = "get_request" -> "requests"
      [] t = "recv" /\ cli_pc[t] = "insert_response" -> "responses"
      [] OTHER -> "nothing"

\* each of the two tasks waits for a mutex the other holds
CircularWait ==
    /\ WaitsFor("main") \in Mutexes /\ WaitsFor("recv") \in Mutexes
    /\ cli_holder[WaitsFor("main")] = "recv"
    /\ cli_holder[WaitsFor("recv")] = "main"

\* C28: main's request loop and the receiving task never wait for each
\* other's mutex at the same time, under any interleaving.
C28_NoCircularWait == ~CircularWait

\* the work items submitted so far
WorkIds == 1..Len(ev_work)

\* C30: a work item submitted to streamsB[i] after an await_event that saw
\* a record of event i starts only when every work item submitted to
\* streamsA[i] before that record has completed; within one stream a work
\* item starts only when the items submitted before it have completed; the
\* host can go on to record_event and await_event whatever the streams are
\* doing; and every record of and wait for event i was issued on a stream
\* of device i.
C30_EventOrdersStreams ==
    /\ \A w \in WorkIds :
          (ev_work[w].stream[1] = "B" /\ ev_work[w].after >= 1
             /\ w \in ev_started) =>
              \A v \in WorkIds :
                  (ev_work[v].stream = <<"A", ev_work[w].stream[2]>>
                     /\ ev_work[v].epoch < ev_work[w].after)
                      => v \in ev_completed
    /\ \A v, w \in WorkIds :
          (v < w /\ ev_work[v].stream = ev_work[w].stream /\ w \in ev_started)
              => v \in ev_completed
    /\ (ev_ndev > 0 /\ ev_calls < MaxHostCalls) =>
          (ENABLED RecordEvent) /\ (ENABLED AwaitEvent)
    /\ \A u \in ev_uses : u[1] = u[2][2]

\* On a machine of two devices the host has submitted work to streamsA[1],
\* recorded, awaited and submitted work to streamsB[1], and has returned
\* from all four calls: the first work is still running, the second is held
\* behind the wait, while device 2's event has already fired.
C30_Witness ==
    /\ ev_ndev = 2 /\ ev_calls = 4 /\ Len(ev_work) = 2
    /\ ev_work[1].stream = <<"A", 1>> /\ ev_work[1].epoch = 0
    /\ ev_work[2].stream = <<"B", 1>> /\ ev_work[2].after = 1
    /\ 1 \in ev_started /\ 1 \notin ev_completed /\ 2 \notin ev_started
    /\ Head(ev_stream[<<"B", 1>>]) = WaitItem(1, 1)
    /\ ev_fired[2] = 1 /\ ev_fired[1] = 0
    /\ ev_uses = {<<1, <<"A", 1>>>>, <<2, <<"A", 2>>>>,
                  <<1, <<"B", 1>>>>, <<2, <<"B", 2>>>>}

\* the places in a party's log of the calls of one name
Positions(p, name) ==
    {k \in 1..Len(grp_log[p]) : grp_log[p][k].call = name}

\* C26: in every party's open round each send_view and receive_view is
\* issued after group_start and before group_end, one of each per device,
\* all sends before any receive; no share is copied back to the host before
\* group_end; and the ring does not lock up: as long as a party is inside
\* open some step of the round can be taken, and a party that is done holds
\* on its host, device by device, the share of its previous neighbour.
C26_GroupedRingCompletes ==
    /\ \A p \in PartyIds :
          LET starts == Positions(p, "group_start")
              ends   == Positions(p, "group_end")
              sends  == Positions(p, "send_view")
              recvs  == Positions(p, "receive_view")
              dtohs  == Positions(p, "dtoh")
          IN  /\ \A k \in sends \cup recvs :
                    /\ \E s \in starts : s < k
                    /\ \A e \in ends : k < e
              /\ \A i \in sends : \A j \in recvs : i < j
              /\ \A k \in dtohs : \E e \in ends : e < k
              /\ grp_host[p] # <<>> => ends # {}
              /\ ends # {} =>
                    \A d \in 1..grp_ndev :
                        /\ \E k \in sends : grp_log[p][k].idx = d
                        /\ \E k \in recvs : grp_log[p][k].idx = d
              /\ Cardinality(sends) <= grp_ndev /\ Cardinality(recvs) <= grp_ndev
              /\ grp_pc[p] = "done" =>
                    grp_host[p] = [d \in 1..grp_ndev |-> ShareB_of(prev_id(p), d)]
    /\ (\E p \in PartyIds : grp_pc[p] # "done") => ENABLED NextGroup

\* The three parties have completed open on two devices: each has issued
\* group_start, two sends, two receives, group_end and two copies, in this
\* order, and holds its previous neighbour's two shares.
C26_Witness ==
    /\ grp_ndev = 2
    /\ \A p \in PartyIds :
          /\ grp_pc[p] = "done"
          /\ grp_log[p] = <<Call("group_start", 0), Call("send_view", 1),
                            Call("send_view", 2), Call("receive_view", 1),
                            Call("receive_view", 2), Call("group_end", 0),
                            Call("dtoh", 1), Call("dtoh", 2)>>
          /\ grp_host[p] = <<ShareB_of(prev_id(p), 1), ShareB_of(prev_id(p), 2)>>

\* C31: decrypt_iris_share tries the current key pair first and the previous
\* one only after the current one failed to open the box.  When the current
\* one fails and the previous one is absent or fails too, the call returns
\* SealedBoxOpenError, and never PreviousKeyNotFound.  A share that is not
\* base64 returns Base64DecodeError with no key pair tried.
CurrentOpens == dec_share.sealed_for = dec_keys.current_key_pair
PreviousOpens ==
    /\ dec_keys.previous_key_pair.some
    /\ dec_share.sealed_for = dec_keys.previous_key_pair.v

C31_CurrentThenPrevious ==
    /\ dec_tried \in {<<>>, <<"current">>, <<"current", "previous">>}
    /\ Len(dec_tried) = 2 => ~CurrentOpens /\ dec_keys.previous_key_pair.some
    /\ dec_result.val # "PreviousKeyNotFound"
    /\ dec_pc = "done" =>
          /\ dec_result = decrypt_iris_share(dec_share, dec_keys)
          /\ ~dec_share.base64 =>
                dec_result = Err("Base64DecodeError") /\ dec_tried = <<>>
          /\ dec_share.base64 => dec_tried # <<>>
          /\ dec_share.base64 /\ CurrentOpens => dec_tried = <<"current">>
          /\ dec_share.base64 /\ ~CurrentOpens /\ ~PreviousOpens =>
                dec_result = Err("SealedBoxOpenError")
          /\ dec_share.base64 /\ ~CurrentOpens /\ PreviousOpens =>
                /\ dec_tried = <<"current", "previous">>
                /\ dec_result = parse_iris_share(dec_share.payload)

\* the current key pair failed, there is no previous one, and the call has
\* returned
C31_Witness ==
    /\ dec_pc = "done"
    /\ dec_share.base64
    /\ ~CurrentOpens
    /\ ~dec_keys.previous_key_pair.some
    /\ dec_tried = <<"current">>
    /\ dec_result = Err("SealedBoxOpenError")

\* the call has returned what it made of a downloaded shares file
Downloaded ==
    /\ fet_pc = "done"
    /\ is_success(fet_response.status)
    /\ fet_response.json

FieldsOf(file) == <<file.iris_share_0, file.iris_share_1, file.iris_share_2>>

\* C33: from a downloaded shares file, get_iris_data_by_party_id returns the
\* field iris_share_<party_id> for party_id 0, 1 and 2, and
\* SecretStringNotFound for every other party_id.
C33_OwnFieldOrNotFound ==
    Downloaded =>
        IF fet_party \in {0, 1, 2}
        THEN fet_result = FetOk(FieldsOf(fet_response.file)[fet_party + 1])
        ELSE fet_result = FetErr("SecretStringNotFound")

\* party 1 has its own share from a file whose other two shares differ
\* from it
C33_Witness ==
    /\ Downloaded
    /\ fet_party = 1
    /\ fet_response.file.iris_share_0 # fet_response.file.iris_share_1
    /\ fet_response.file.iris_share_2 # fet_response.file.iris_share_1
    /\ fet_result = FetOk(fet_response.file.iris_share_1)

\* what bounds the call: a GET per delay of the strategy and one more, a
\* response as soon as a send succeeds, and an error after the last failure
FetchBounded ==
    /\ fet_attempts <= RETRIES + 1
    /\ fet_attempts + fet_strategy
          = RETRIES + (IF fet_pc \in {"retry", "sleeping"} THEN 0 ELSE 1)
    /\ fet_pc \in {"response", "done"} /\ fet_response # NoResponse =>
          fet_result.val # "RequestError" \/ ~fet_response.json
    /\ fet_pc = "done" /\ fet_response = NoResponse =>
          fet_attempts = RETRIES + 1 /\ fet_result = FetErr("RequestError")
    /\ fet_pc = "done" /\ fet_response # NoResponse
          /\ ~is_success(fet_response.status) =>
          fet_result = ResponseContent(fet_response.status)

\* C32: get_iris_data_by_party_id always terminates: every call returns.
C32_AlwaysTerminates == <>(fet_pc = "done")

===========================================================================
